---- MODULE Spec2Model ----
(***************************************************************************)
(* Model of the bubble-pop minigame engine (BubblePopEngine), its React    *)
(* wrapper (BubblePopGame) and the helpers they use.                       *)
(*                                                                         *)
(* Units: lengths in millimetres, velocities in mm/s, times in ms, so that *)
(* the source's decimal constants are integers.  32-bit machine words are  *)
(* pairs <<hi, lo>> of 16-bit halves, so that no intermediate value leaves *)
(* the range of the model checker's integers.                              *)
(***************************************************************************)
EXTENDS Integers, Sequences, FiniteSets, TLC

VARIABLES
    now,                 \* wall clock, ms (Date.now() and performance.now())
    initPhase,           \* position of the async init(): "pending", "done", "failed", "aborted"
    isReady,             \* this.isReady
    isDestroyed,         \* this.isDestroyed
    engineRef,           \* wrapper: engineRef.current is set
    selfId,              \* this.selfId
    players,             \* this.players: playerId -> avatar record
    bubbles,             \* this.bubbles: slotIndex -> bubble record
    bodies,              \* slot indices that own a sensor body in the physics world
    poppedIndices,       \* this.poppedIndices
    processedPopEvents,  \* this.processedPopEvents, as pairs <<playerId, bubbleId>>
    lastSlotIndex,       \* this.lastSlotIndex
    lastSyncTime,        \* this.lastSyncTime
    serverState,         \* this.serverState
    lastGroundedState,   \* this.lastGroundedState: "null", "true" or "false"
    pendingPlayers,      \* this.pendingPlayers
    syncSeed,            \* this.syncSeed, a 32-bit word
    slotParams,          \* slot -> what spawnDeterministicBubble derives for it from syncSeed
    emitted,             \* outbound 'minigame_bubble_popped' messages: key -> how many were sent
    notified,            \* the last two values passed to onGroundedChange, oldest first
    scored,              \* history: key -> how many times handleBubblePop raised a score for it
    nSamples,            \* history: how many position samples were applied
    last,                \* history: the last operation, its arguments, pre-state and result
    removals,            \* history: removePlayer calls made before ready, <<playerId, queue length then>>
    inst,                \* engine instances asked for spawn parameters directly (SpecSpawn)
    minigameState,       \* server: GameState.minigameState (SpecServer)
    game                 \* server: GameState's players, status, current round and timers (SpecGame)

vars == <<now, initPhase, isReady, isDestroyed, engineRef, selfId, players, bubbles,
          bodies, poppedIndices, processedPopEvents, lastSlotIndex, lastSyncTime,
          serverState, lastGroundedState, pendingPlayers, syncSeed, slotParams, emitted,
          notified, scored, nSamples, last, removals, inst, minigameState, game>>

----------------------------------------------------------------------------
(* 32-bit words *)

Half == 65536

RECURSIVE BitOp(_, _, _, _)
\* bitwise combination of two n-bit naturals; op is "xor" or "or"
BitOp(op, a, b, n) ==
    IF n = 0 THEN 0
    ELSE LET x == a % 2
             y == b % 2
             bit == IF op = "xor" THEN (x + y) % 2 ELSE (IF x + y > 0 THEN 1 ELSE 0)
         IN  bit + 2 * BitOp(op, a \div 2, b \div 2, n - 1)

RECURSIVE Pow2(_)
Pow2(n) == IF n = 0 THEN 1 ELSE 2 * Pow2(n - 1)

\* a ^ b
XorW(a, b) == <<BitOp("xor", a[1], b[1], 16), BitOp("xor", a[2], b[2], 16)>>

\* a | k for a small constant k < 2^16
OrW(a, k) == <<a[1], BitOp("or", a[2], k, 16)>>

\* (a + b) mod 2^32
AddW(a, b) ==
    LET lo == a[2] + b[2]
    IN  <<(a[1] + b[1] + lo \div Half) % Half, lo % Half>>

\* (a - b) mod 2^32
SubW(a, b) ==
    LET lo == a[2] - b[2] + Half
    IN  <<(a[1] - b[1] - 1 + lo \div Half + Half) % Half, lo % Half>>

\* a >>> n, 0 < n < 16
ShrW(a, n) ==
    <<a[1] \div Pow2(n), (a[1] % Pow2(n)) * Pow2(16 - n) + a[2] \div Pow2(n)>>

\* (a << n) mod 2^32, 0 < n < 16
ShlW(a, n) ==
    <<(a[1] % Pow2(16 - n)) * Pow2(n) + a[2] \div Pow2(16 - n), (a[2] % Pow2(16 - n)) * Pow2(n)>>

\* (x * y) mod 2^16 for 16-bit x, y, by bytes
MulLow16(x, y) == ((x % 256) * y + (((x \div 256) * y) % 256) * 256) % Half

\* Math.imul(a, b): the low 32 bits of the product
ImulW(a, b) ==
    LET p0 == (a[2] % 256) * b[2]
        p1 == (a[2] \div 256) * b[2]
        s  == p0 + (p1 % 256) * 256
        cross == (MulLow16(a[1], b[2]) + MulLow16(a[2], b[1])) % Half
    IN  <<(s \div Half + p1 \div 256 + cross) % Half, s % Half>>

\* ToInt32 of a small integer (|n| < 2^31)
WordOf(n) == IF n >= 0 THEN <<n \div Half, n % Half>>
             ELSE SubW(<<0, 0>>, <<(-n) \div Half, (-n) % Half>>)

\* floor(w * k / 2^32) for a word w read as unsigned and 0 <= k < 2^15
ScaleW(w, k) == (w[1] * k + (w[2] * k) \div Half) \div Half

\* round(w * k / 2^32), halves up, for a word w read as unsigned and 0 <= k < 2^15
RoundW(w, k) == (w[1] * k + (w[2] * k) \div Half + Half \div 2) \div Half

----------------------------------------------------------------------------
(* exact arithmetic on naturals beyond 31 bits: six limbs of 15 bits each, least
   significant first.  The code computes in doubles; the model computes the same
   expressions without rounding. *)

Limb == Half \div 2

\* the natural n < 2^31 as limbs
BigOf(n) == <<n % Limb, (n \div Limb) % Limb, n \div (Limb * Limb), 0, 0, 0>>

\* the limbs of a 32-bit word read as unsigned
BigOfW(w) ==
    LET mid == 2 * w[1] + w[2] \div Limb
    IN  <<w[2] % Limb, mid % Limb, mid \div Limb, 0, 0, 0>>

\* 2^32
BigU == <<0, 0, 4, 0, 0, 0>>

\* the element of a set of one element; its use below is to have an operator's
\* argument computed once, whatever the number of places that read it
Only(S) == CHOOSE x \in S : TRUE

\* a + b
BigAdd(x, y) ==
    Only({LET s1 == a[1] + b[1]
              s2 == a[2] + b[2] + s1 \div Limb
              s3 == a[3] + b[3] + s2 \div Limb
              s4 == a[4] + b[4] + s3 \div Limb
              s5 == a[5] + b[5] + s4 \div Limb
              s6 == a[6] + b[6] + s5 \div Limb
          IN  <<s1 % Limb, s2 % Limb, s3 % Limb, s4 % Limb, s5 % Limb, s6 % Limb>> :
          a \in {x}, b \in {y}})

\* a - b for a >= b
BigSub(x, y) ==
    Only({LET s1 == a[1] - b[1] + Limb
              s2 == a[2] - b[2] + Limb - 1 + s1 \div Limb
              s3 == a[3] - b[3] + Limb - 1 + s2 \div Limb
              s4 == a[4] - b[4] + Limb - 1 + s3 \div Limb
              s5 == a[5] - b[5] + Limb - 1 + s4 \div Limb
              s6 == a[6] - b[6] + Limb - 1 + s5 \div Limb
          IN  <<s1 % Limb, s2 % Limb, s3 % Limb, s4 % Limb, s5 % Limb, s6 % Limb>> :
          a \in {x}, b \in {y}})

\* a * k for 0 <= k < 2^15
BigScale(x, k) ==
    Only({LET s1 == a[1] * k
              s2 == a[2] * k + s1 \div Limb
              s3 == a[3] * k + s2 \div Limb
              s4 == a[4] * k + s3 \div Limb
              s5 == a[5] * k + s4 \div Limb
              s6 == a[6] * k + s5 \div Limb
          IN  <<s1 % Limb, s2 % Limb, s3 % Limb, s4 % Limb, s5 % Limb, s6 % Limb>> :
          a \in {x}})

\* a * 2^(15 n), n = 1 or 2
BigShift(x, n) ==
    Only({IF n = 1 THEN <<0, a[1], a[2], a[3], a[4], a[5]>>
                   ELSE <<0, 0, a[1], a[2], a[3], a[4]>> : a \in {x}})

\* floor(a / 2^(15 n)), n = 2 or 4
BigDrop(x, n) ==
    Only({IF n = 2 THEN <<a[3], a[4], a[5], a[6], 0, 0>>
                   ELSE <<a[5], a[6], 0, 0, 0, 0>> : a \in {x}})

\* a * b for b < 2^45
BigMul(x, y) ==
    Only({BigAdd(BigScale(a, b[1]),
                 BigAdd(BigShift(BigScale(a, b[2]), 1), BigShift(BigScale(a, b[3]), 2))) :
          a \in {x}, b \in {y}})

\* a < b
BigLess(x, y) ==
    \E a \in {x}, b \in {y} :
        LET top == {i \in 1..6 : a[i] # b[i]}
        IN  top # {} /\ \E i \in top : (\A j \in top : j <= i) /\ a[i] < b[i]

\* floor(a / d) for 0 < d < 2^15
BigDiv(x, d) ==
    Only({LET s5 == (a[6] % d) * Limb + a[5]
              s4 == (s5 % d) * Limb + a[4]
              s3 == (s4 % d) * Limb + a[3]
              s2 == (s3 % d) * Limb + a[2]
              s1 == (s2 % d) * Limb + a[1]
          IN  <<s1 \div d, s2 \div d, s3 \div d, s4 \div d, s5 \div d, a[6] \div d>> :
          a \in {x}})

\* the value of a < 2^31
BigInt(x) == Only({a[1] + a[2] * Limb + a[3] * Limb * Limb : a \in {x}})

----------------------------------------------------------------------------
(* utils.js *)

\* clamp(value, min, max) = Math.max(min, Math.min(max, value))
clamp(value, min, max) ==
    LET m == IF max < value THEN max ELSE value
    IN  IF min > m THEN min ELSE m

RECURSIVE hashFrom(_, _, _)
\* the loop of hashString from index i, hash so far h
hashFrom(str, i, h) ==
    IF i > Len(str) THEN h
    ELSE hashFrom(str, i + 1, AddW(SubW(ShlW(h, 5), h), <<0, str[i]>>))

\* hashString(str): str is the sequence of the string's char codes
hashString(str) == hashFrom(str, 1, <<0, 0>>)

\* the increment of Mulberry32, 0x6D2B79F5
MulberryStep == <<27947, 31221>>

\* createPRNG(seed): the closure's captured state
createPRNG(seed) == seed

\* one call of the closure: <<value, next state>>; value is the 32-bit numerator of
\* the returned fraction value / 2^32
prngCall(st) ==
    LET s1 == AddW(st, MulberryStep)
        t1 == ImulW(XorW(s1, ShrW(s1, 15)), OrW(s1, 1))
        t2 == XorW(t1, AddW(t1, ImulW(XorW(t1, ShrW(t1, 7)), OrW(t1, 61))))
    IN  <<XorW(t2, ShrW(t2, 14)), s1>>

----------------------------------------------------------------------------
(* constants.js, in mm, mm/s, mm/s^2 and ms *)

CANVAS_WIDTH == 400
CANVAS_HEIGHT == 440
PHYSICS_SCALE == 30
WORLD_WIDTH == (CANVAS_WIDTH * 1000) \div PHYSICS_SCALE
WORLD_HEIGHT == (CANVAS_HEIGHT * 1000 + PHYSICS_SCALE \div 2) \div PHYSICS_SCALE
AVATAR_RADIUS == 720
GROUNDED_VELOCITY_THRESHOLD == 1000
GROUNDED_Y_THRESHOLD == WORLD_HEIGHT - AVATAR_RADIUS - 500
MIN_LAUNCH_POWER == 5000
MAX_LAUNCH_POWER == 28000
LAUNCH_DRAG_SCALE == 400
BUBBLE_MIN_RADIUS == 400
BUBBLE_MAX_RADIUS == 800
BUBBLE_SPAWN_INTERVAL == 2000
BUBBLE_MIN_FALL_SPEED == 200
BUBBLE_MAX_FALL_SPEED == 800
BUBBLE_MIN_GRAVITY == 50
BUBBLE_MAX_GRAVITY == 200
BUBBLE_COLORS == 6
STATE_SYNC_INTERVAL == 500
\* the frame delta's cap, 1/30 s
MaxFrameDelta == 33
\* syncPlayerState's thresholds, 2.0 and 0.05
HardSnap == 2000
DeadZone == 50

\* where an avatar rests on the floor
FloorY == WORLD_HEIGHT - AVATAR_RADIUS

----------------------------------------------------------------------------
(* bounds and input sets *)

\* the clock stops advancing once this slot is the current one
MaxSlot == 1
\* largest count an authoritative score table carries
MaxCount == 2
\* how many position samples one behaviour applies
MaxSamples == 1
\* how many wobble draws one engine instance makes (SpecSpawn)
MaxWobbles == 1
\* how many spawn calls one engine instance makes (SpecSpawn)
MaxCalls == 2

Slots == 0..MaxSlot

\* the wrapper's selfId prop, the other players of the session, and an id that
\* never joins; CharCodes gives each id's characters
SelfPid == "a"
OtherPids == {"b"}
UnknownPid == "c"
AllPids == {SelfPid, UnknownPid} \cup OtherPids
CharCodes(pid) == IF pid = "a" THEN <<97>> ELSE IF pid = "b" THEN <<98>> ELSE <<99>>

\* the shared synchronization seed strings, as char codes: "ab" and "room-42"
SeedAB == <<97, 98>>
SeedRoom == <<114, 111, 111, 109, 45, 52, 50>>

Keys == AllPids \X Slots
EmptyFn == [p \in {} |-> 0]

----------------------------------------------------------------------------
(* BubblePopEngine: deterministic spawner *)

\* five successive calls of generator g: <<value, state after the call>> of each
Draws(g) ==
    LET d1 == prngCall(g)
        d2 == prngCall(d1[2])
        d3 == prngCall(d2[2])
        d4 == prngCall(d3[2])
        d5 == prngCall(d4[2])
    IN  <<d1, d2, d3, d4, d5>>

\* radius, fallSpeed and bubbleGravity times 2^32, from their draws
RadiusN(u) == BigAdd(BigScale(BigU, BUBBLE_MIN_RADIUS),
                     BigScale(BigOfW(u), BUBBLE_MAX_RADIUS - BUBBLE_MIN_RADIUS))
FallN(u) == BigAdd(BigScale(BigU, BUBBLE_MIN_FALL_SPEED),
                   BigScale(BigOfW(u), BUBBLE_MAX_FALL_SPEED - BUBBLE_MIN_FALL_SPEED))
GravN(u) == BigAdd(BigScale(BigU, BUBBLE_MIN_GRAVITY),
                   BigScale(BigOfW(u), BUBBLE_MAX_GRAVITY - BUBBLE_MIN_GRAVITY))

\* x = radius + prng() * (WORLD_WIDTH - radius * 2) for the draws u1 of the radius
\* and u2 of x, to the nearest mm: with r = RadiusN / 2^32 and WORLD_WIDTH =
\* CANVAS_WIDTH * 1000 / PHYSICS_SCALE it is
\* (PHYSICS_SCALE * 2^32 * RadiusN + u2 * (CANVAS_WIDTH * 1000 * 2^32
\*  - 2 * PHYSICS_SCALE * RadiusN)) / (PHYSICS_SCALE * 2^64)
SpawnX(u1, u2) ==
    LET rN == RadiusN(u1)
        width == BigSub(BigMul(BigOf(CANVAS_WIDTH * 1000), BigU),
                        BigScale(rN, 2 * PHYSICS_SCALE))
        num == BigAdd(BigMul(BigScale(rN, PHYSICS_SCALE), BigU), BigMul(width, BigOfW(u2)))
        half == BigMul(BigScale(BigU, PHYSICS_SCALE \div 2), BigU)
    IN  BigInt(BigDiv(BigDrop(BigDiv(BigAdd(num, half), PHYSICS_SCALE), 4), 16))

\* what spawnDeterministicBubble makes of its five draws d: lengths to the nearest
\* mm, the speed to the nearest mm/s, the acceleration to the nearest mm/s^2, and
\* with them radius, fallSpeed and bubbleGravity unrounded (times 2^32)
ParamsOf(d) ==
    [radius |-> BUBBLE_MIN_RADIUS + RoundW(d[1][1], BUBBLE_MAX_RADIUS - BUBBLE_MIN_RADIUS),
     x |-> SpawnX(d[1][1], d[2][1]),
     fallSpeed |-> BUBBLE_MIN_FALL_SPEED
                    + RoundW(d[3][1], BUBBLE_MAX_FALL_SPEED - BUBBLE_MIN_FALL_SPEED),
     bubbleGravity |-> BUBBLE_MIN_GRAVITY
                    + RoundW(d[4][1], BUBBLE_MAX_GRAVITY - BUBBLE_MIN_GRAVITY),
     colorIndex |-> ScaleW(d[5][1], BUBBLE_COLORS),
     exact |-> <<RadiusN(d[1][1]), FallN(d[3][1]), GravN(d[4][1])>>]

\* the parameters spawnDeterministicBubble draws from generator g
ParamsFrom(g) == ParamsOf(Draws(g))

\* a generator carried from call to call instead of being created by the call
generatorCarried(I, seed, slotIndex) == I.gen

\* the generator an engine instance I draws from in a call for slotIndex:
\* createPRNG(this.syncSeed + slotIndex), new in every call
generatorFor(I, seed, slotIndex) == createPRNG(AddW(seed, WordOf(slotIndex)))

\* the parameters spawnDeterministicBubble derives for a slot
SpawnParams(seed, slotIndex) == ParamsFrom(createPRNG(AddW(seed, WordOf(slotIndex))))

\* the seeds engines are constructed with: hashString of the wrapper's syncSeed prop
Seeds == {hashString(SeedAB), hashString(SeedRoom)}

\* the constructor's options: the seed and, derived from it once, what
\* spawnDeterministicBubble computes from createPRNG(syncSeed + slotIndex) on each call
seedVars == <<syncSeed, slotParams>>
SlotParams(seed) == [s \in Slots |-> SpawnParams(seed, s)]

\* currentY = -radius + fallSpeed * elapsed + 0.5 * bubbleGravity * elapsed^2 at
\* elapsed ms (of either sign) since the slot's spawn time, times 2 * 10^6 * 2^32
\* and in mm, as <<the terms that add, the terms that subtract>>
FallParts(p, elapsed) ==
    LET t == IF elapsed < 0 THEN -elapsed ELSE elapsed
    IN  Only({IF elapsed < 0 THEN <<g, BigAdd(r, v)>> ELSE <<BigAdd(v, g), r>> :
              r \in {BigScale(BigScale(p.exact[1], 2000), 1000)},
              v \in {BigMul(p.exact[2], BigOf(2000 * t))},
              g \in {BigMul(p.exact[3], BigOf(t * t))}})

\* floor(a / (2 * 10^6 * 2^32)), the divisor being 15625 * 2^30 * 512
FallUnits(a) == BigDiv(BigDrop(BigDiv(a, 15625), 2), 512)

\* one mm in the units of FallParts
FallUnit == BigScale(BigScale(BigU, 2000), 1000)

\* the position with the parts parts, to the nearest mm
NearestY(parts) ==
    Only({IF BigLess(up, down)
          THEN -BigInt(FallUnits(BigAdd(BigSub(down, up), BigSub(FallUnit, BigOf(1)))))
          ELSE BigInt(FallUnits(BigSub(up, down))) :
          up \in {BigAdd(parts[1], BigDiv(FallUnit, 2))}, down \in {parts[2]}})

\* whether the position with the parts parts exceeds C.WORLD_HEIGHT + radius, with
\* WORLD_HEIGHT = CANVAS_HEIGHT / PHYSICS_SCALE
PastBottom(p, parts) ==
    LET height == BigScale(BigScale(FallUnit, 1000), CANVAS_HEIGHT)
        radius == BigScale(BigScale(BigScale(p.exact[1], 2000), 1000), PHYSICS_SCALE)
    IN  BigLess(BigAdd(BigAdd(height, radius), BigScale(parts[2], PHYSICS_SCALE)),
                BigScale(parts[1], PHYSICS_SCALE))

\* currentY to the nearest mm
CurrentY(p, elapsed) == NearestY(FallParts(p, elapsed))

\* currentY > C.WORLD_HEIGHT + radius
OffScreen(p, elapsed) == PastBottom(p, FallParts(p, elapsed))

\* The ledger part of the engine state, threaded through the handlers below.
Ledger == [bubbles |-> bubbles, bodies |-> bodies, poppedIndices |-> poppedIndices,
           processedPopEvents |-> processedPopEvents, players |-> players,
           emitted |-> emitted, scored |-> scored]

\* f without key k
Without(f, k) == [j \in DOMAIN f \ {k} |-> f[j]]
\* f with key k set to v
With(f, k, v) == [j \in DOMAIN f \cup {k} |-> IF j = k THEN v ELSE f[j]]

\* spawnDeterministicBubble without its test of poppedIndices
spawnIgnoringPopped(L, slotIndex, ready, destroyed, t) ==
    IF ~ready \/ destroyed THEN L
    ELSE IF slotIndex \in DOMAIN L.bubbles THEN L
    ELSE LET p == slotParams[slotIndex]
             spawnTime == slotIndex * BUBBLE_SPAWN_INTERVAL
             parts == FallParts(p, t - spawnTime)
             currentY == NearestY(parts)
             offScreen == PastBottom(p, parts)
         IN  IF offScreen THEN L
             ELSE [L EXCEPT !.bodies = @ \cup {slotIndex},
                            !.bubbles = With(@, slotIndex,
                                [radius |-> p.radius, x |-> p.x, y |-> currentY, vy |-> 0,
                                 fallSpeed |-> p.fallSpeed, bubbleGravity |-> p.bubbleGravity,
                                 colorIndex |-> p.colorIndex, spawnTime |-> spawnTime])]

\* spawnDeterministicBubble(slotIndex) at time t
spawnDeterministicBubble(L, slotIndex, ready, destroyed, t) ==
    IF ~ready \/ slotIndex \in L.poppedIndices \/ destroyed THEN L
    ELSE IF slotIndex \in DOMAIN L.bubbles THEN L
    ELSE LET p == slotParams[slotIndex]
             spawnTime == slotIndex * BUBBLE_SPAWN_INTERVAL
             parts == FallParts(p, t - spawnTime)
             currentY == NearestY(parts)
             offScreen == PastBottom(p, parts)
         IN  IF offScreen THEN L
             ELSE [L EXCEPT !.bodies = @ \cup {slotIndex},
                            !.bubbles = With(@, slotIndex,
                                [radius |-> p.radius, x |-> p.x, y |-> currentY, vy |-> 0,
                                 fallSpeed |-> p.fallSpeed, bubbleGravity |-> p.bubbleGravity,
                                 colorIndex |-> p.colorIndex, spawnTime |-> spawnTime])]

----------------------------------------------------------------------------
(* BubblePopEngine: reconciliation *)

\* an onPop callback that sends every player's pops out
onPopAnyPlayer(L, playerId, bubbleId) ==
    [L EXCEPT !.emitted[<<playerId, bubbleId>>] = @ + 1]

\* the wrapper's onPop callback: only the local player's pops are sent out
onPop(L, playerId, bubbleId) ==
    IF playerId = SelfPid
    THEN [L EXCEPT !.emitted[<<playerId, bubbleId>>] = @ + 1]
    ELSE L

\* the scoring half of handleBubblePop without its test of processedPopEvents
ScoreEveryPop(L, bubbleId, playerId) ==
    LET L1 == [L EXCEPT !.processedPopEvents = @ \cup {<<playerId, bubbleId>>}]
    IN  IF playerId \in DOMAIN L1.players
        THEN onPop([L1 EXCEPT !.players[playerId].popCount = @ + 1,
                              !.scored[<<playerId, bubbleId>>] = @ + 1],
                   playerId, bubbleId)
        ELSE L1

\* the scoring half of handleBubblePop, taken when isLocal
ScoreLocalPop(L, bubbleId, playerId) ==
    IF <<playerId, bubbleId>> \in L.processedPopEvents THEN L
    ELSE LET L1 == [L EXCEPT !.processedPopEvents = @ \cup {<<playerId, bubbleId>>}]
         IN  IF playerId \in DOMAIN L1.players
             THEN onPop([L1 EXCEPT !.players[playerId].popCount = @ + 1,
                                   !.scored[<<playerId, bubbleId>>] = @ + 1],
                        playerId, bubbleId)
             ELSE L1

\* handleBubblePop taking every pop message for a first pop of its key
handleBubblePopCountingMessages(L, bubbleId, playerId, isLocal, refused) ==
    LET L1 == [L EXCEPT !.poppedIndices = @ \cup {bubbleId}]
        L2 == IF bubbleId \in DOMAIN L1.bubbles
              THEN [L1 EXCEPT !.bodies = IF refused THEN @ ELSE @ \ {bubbleId},
                              !.bubbles = Without(@, bubbleId)]
              ELSE L1
    IN  ScoreEveryPop(L2, bubbleId, playerId)

\* handleBubblePop(bubbleId, playerId, isLocal); refused: the physics world, locked
\* while it reports contacts, refuses to destroy the body
handleBubblePop(L, bubbleId, playerId, isLocal, refused) ==
    LET L1 == [L EXCEPT !.poppedIndices = @ \cup {bubbleId}]
        L2 == IF bubbleId \in DOMAIN L1.bubbles
              THEN [L1 EXCEPT !.bodies = IF refused THEN @ ELSE @ \ {bubbleId},
                              !.bubbles = Without(@, bubbleId)]
              ELSE L1
    IN  IF isLocal THEN ScoreLocalPop(L2, bubbleId, playerId) ELSE L2

\* syncScores overwriting every player's count
MergedCountOverwrite(pid, self, cur, count) == count

\* syncScores keeping the larger count for every player
MergedCountLarger(pid, self, cur, count) == IF count > cur THEN count ELSE cur

\* the count syncScores leaves for player pid, holding cur, given the table's count
MergedCount(pid, self, cur, count) ==
    IF pid = self
    THEN (IF count > cur THEN count ELSE cur)
    ELSE count

\* syncScores(popCounts)
syncScores(P, self, popCounts) ==
    [pid \in DOMAIN P |->
        IF pid \in DOMAIN popCounts
        THEN [P[pid] EXCEPT !.popCount = MergedCount(pid, self, @, popCounts[pid])]
        ELSE P[pid]]

\* syncMinigameState adding the snapshot's count to the count held
SnapshotCountAdded(pid, self, cur, count) == cur + count

\* the count syncMinigameState leaves for player pid, holding cur
SnapshotCount(pid, self, cur, count) == count

\* syncMinigameState leaving processedPopEvents as it is
syncMinigameStateUnseeded(L, self, state) ==
    [L EXCEPT !.poppedIndices = @ \cup state.poppedBubbles,
              !.bubbles = [s \in DOMAIN @ \ state.poppedBubbles |-> @[s]],
              !.bodies = @ \ (state.poppedBubbles \cap DOMAIN L.bubbles),
              !.players = [pid \in DOMAIN @ |->
                  IF pid \in DOMAIN state.popCounts
                  THEN [@[pid] EXCEPT !.popCount =
                            SnapshotCount(pid, self, @, state.popCounts[pid])]
                  ELSE @[pid]]]

\* syncMinigameState(state), apart from this.serverState = state
syncMinigameState(L, self, state) ==
    [L EXCEPT !.poppedIndices = @ \cup state.poppedBubbles,
              !.bubbles = [s \in DOMAIN @ \ state.poppedBubbles |-> @[s]],
              !.bodies = @ \ (state.poppedBubbles \cap DOMAIN L.bubbles),
              !.players = [pid \in DOMAIN @ |->
                  IF pid \in DOMAIN state.popCounts
                  THEN [@[pid] EXCEPT !.popCount =
                            SnapshotCount(pid, self, @, state.popCounts[pid])]
                  ELSE @[pid]],
              !.processedPopEvents = @ \cup
                  {k \in Keys : k[1] \in DOMAIN state.playerPops
                                /\ k[2] \in state.playerPops[k[1]]}]

----------------------------------------------------------------------------
(* BubblePopEngine: actors, launch, position reconciliation *)

B2S(b) == IF b THEN "true" ELSE "false"

\* onGroundedChange(v) appended to the window of the last two notifications
Note(n, v) == IF Len(n) < 2 THEN Append(n, v) ELSE <<n[2], v>>

\* |hash| of a 32-bit word read as a signed integer, modulo 1000
AbsMod1000(w) ==
    LET m == IF w[1] >= 32768 THEN SubW(<<0, 0>>, w) ELSE w
    IN  ((m[1] % 1000) * (Half % 1000) + m[2]) % 1000

\* addPlayer's deterministic initial x
AvatarStartX(pid) ==
    AVATAR_RADIUS
    + (AbsMod1000(hashString(CharCodes(pid))) * (WORLD_WIDTH - AVATAR_RADIUS * 2)) \div 1000

\* The actor part of the engine state, threaded through addPlayer.
Actors == [players |-> players, selfId |-> selfId, lastGroundedState |-> lastGroundedState,
           notified |-> notified, notes |-> 0]

\* this.serverState?.popCounts?.[playerId] || 0
InitialCount(state, playerId) ==
    IF ~state.isNull /\ playerId \in DOMAIN state.popCounts
    THEN state.popCounts[playerId] ELSE 0

\* addPlayer(playerId, avatarSeed, isOwn) on a ready engine
addPlayer(E, playerId, isOwn) ==
    IF playerId \in DOMAIN E.players THEN E
    ELSE LET initialCount == InitialCount(serverState, playerId)
             E1 == [E EXCEPT !.players = With(@, playerId,
                        [x |-> AvatarStartX(playerId), y |-> FloorY - 100, vx |-> 0, vy |-> 0,
                         isGrounded |-> TRUE, popCount |-> initialCount, isOwn |-> isOwn])]
         IN  IF isOwn
             THEN [E1 EXCEPT !.selfId = playerId, !.lastGroundedState = "true",
                             !.notified = Note(@, TRUE), !.notes = @ + 1]
             ELSE E1

RECURSIVE ReplayPending(_, _)
\* this.pendingPlayers.forEach(addPlayer)
ReplayPending(E, q) ==
    IF q = <<>> THEN E
    ELSE ReplayPending(addPlayer(E, Head(q).playerId, Head(q).isOwn), Tail(q))

SpeedSq(a) == a.vx * a.vx + a.vy * a.vy

\* isPlayerGrounded(playerId)
isPlayerGrounded(P, playerId) ==
    IF playerId \notin DOMAIN P THEN FALSE
    ELSE /\ P[playerId].y >= GROUNDED_Y_THRESHOLD
         /\ SpeedSq(P[playerId]) < GROUNDED_VELOCITY_THRESHOLD * GROUNDED_VELOCITY_THRESHOLD

\* canLaunch(playerId)
canLaunch(P, playerId) == isPlayerGrounded(P, playerId)

\* launch directions: <<cos, sin>> of the angle, in thousandths
Angles == { <<0, -1000>>, <<-800, -600>> }

\* launchAvatar applying the requested power as it is
LaunchPowerUnclamped(power) == power

\* the power launchAvatar applies
LaunchPower(power) == clamp(power, MIN_LAUNCH_POWER, MAX_LAUNCH_POWER)

\* launchAvatar without its canLaunch test
launchAllowedAirborne(P, ready, playerId) == ready /\ playerId \in DOMAIN P

\* launchAvatar's result, TRUE for a launch that is carried out
launchAllowed(P, ready, playerId) ==
    ready /\ playerId \in DOMAIN P /\ canLaunch(P, playerId)

\* launchAvatar's effect on the actor when the launch is carried out
launchAvatar(P, playerId, angle, power) ==
    LET clampedPower == LaunchPower(power)
    IN  [P EXCEPT ![playerId].vx = (angle[1] * clampedPower) \div 1000,
                  ![playerId].vy = (angle[2] * clampedPower) \div 1000,
                  ![playerId].isGrounded = FALSE]

DistSq(a, s) == (s.x - a.x) * (s.x - a.x) + (s.y - a.y) * (s.y - a.y)

\* cur + (target - cur) * num / den
Blend(cur, target, num, den) == cur + (num * (target - cur)) \div den

\* syncPlayerState snapping from the threshold distance on
SyncCaseSnapAtThreshold(d2) ==
    IF d2 >= HardSnap * HardSnap THEN "snap"
    ELSE IF d2 > DeadZone * DeadZone THEN "blend"
    ELSE "none"

\* which branch of syncPlayerState a sample at squared distance d2 takes
SyncCase(d2) ==
    IF d2 > HardSnap * HardSnap THEN "snap"
    ELSE IF d2 > DeadZone * DeadZone THEN "blend"
    ELSE "none"

\* whether syncPlayerState goes past its guards for playerId
syncApplies(P, self, playerId) == playerId # self /\ playerId \in DOMAIN P

\* syncPlayerState past its guards: snap, blend or leave alone
reconcile(P, playerId, state) ==
    LET cur == P[playerId]
        kind == SyncCase(DistSq(cur, state))
    IN  IF kind = "snap"
        THEN [P EXCEPT ![playerId].x = state.x, ![playerId].y = state.y,
                       ![playerId].vx = state.vx, ![playerId].vy = state.vy]
        ELSE IF kind = "blend"
        THEN [P EXCEPT ![playerId].x = Blend(cur.x, state.x, 3, 10),
                       ![playerId].y = Blend(cur.y, state.y, 3, 10),
                       ![playerId].vx = Blend(cur.vx, state.vx, 2, 10),
                       ![playerId].vy = Blend(cur.vy, state.vy, 2, 10)]
        ELSE P

\* syncPlayerState(playerId, state)
syncPlayerState(P, self, playerId, state) ==
    IF ~syncApplies(P, self, playerId) THEN P ELSE reconcile(P, playerId, state)

\* a sample applied to whichever known actor it names
handleStateSyncAnyActor(P, self, state) ==
    IF state.playerId \in DOMAIN P THEN reconcile(P, state.playerId, state) ELSE P

\* wrapper: handleStateSync(state), reached only while engineRef.current is set
handleStateSync(P, self, state) ==
    IF state.playerId # SelfPid THEN syncPlayerState(P, self, state.playerId, state) ELSE P

----------------------------------------------------------------------------
(* BubblePopEngine: update() *)

\* Outcomes of one step of the physics library for a dynamic avatar body that is
\* not at rest: resting on the floor, in flight, about to settle, near the floor
\* and fast, near the floor and slow.  The library is not part of the repository;
\* the step picks one of these for every moving avatar (x is kept).
Canon == [rest |-> [y |-> FloorY, vx |-> 0, vy |-> 0],
          air  |-> [y |-> 8000, vx |-> 3000, vy |-> -4000],
          low  |-> [y |-> FloorY - 50, vx |-> 0, vy |-> 150],
          fast |-> [y |-> FloorY - 300, vx |-> 900, vy |-> 800],
          slow |-> [y |-> FloorY - 300, vx |-> 300, vy |-> 0]]

Resting(a) == a.y = FloorY /\ a.vx = 0 /\ a.vy = 0

\* this.world.step(dt, 8, 3) for one avatar
worldStepAvatar(a, choice) ==
    IF Resting(a) THEN a
    ELSE [a EXCEPT !.y = Canon[choice].y, !.vx = Canon[choice].vx, !.vy = Canon[choice].vy]

Abs(n) == IF n < 0 THEN -n ELSE n

\* update(): the stability logic for one avatar
Settle(a) ==
    LET speedSq == SpeedSq(a)
        lim == (GROUNDED_VELOCITY_THRESHOLD * 3) \div 2
    IN  IF a.y >= GROUNDED_Y_THRESHOLD /\ speedSq < lim * lim
        THEN LET a1 == IF Abs(a.vy) > 100 THEN [a EXCEPT !.vy = (a.vy * 8) \div 10] ELSE a
             IN  IF a.y >= WORLD_HEIGHT - AVATAR_RADIUS - 100 /\ speedSq < 200 * 200
                 THEN [a1 EXCEPT !.vx = 0, !.vy = 0, !.y = FloorY]
                 ELSE a1
        ELSE a

\* this.world.step for the kinematic bubble bodies, dt in ms
StepBubbles(B, dt) == [s \in DOMAIN B |-> [B[s] EXCEPT !.y = @ + (B[s].vy * dt) \div 1000]]

\* update()'s bubble loop retiring the slot of every bubble it removes
UpdateBubblesRetiring(L, t) ==
    LET gone == {s \in DOMAIN L.bubbles :
                    L.bubbles[s].y > WORLD_HEIGHT + L.bubbles[s].radius + 1000}
    IN  [L EXCEPT !.bodies = @ \ gone,
                  !.poppedIndices = @ \cup gone,
                  !.bubbles = [s \in DOMAIN @ \ gone |->
                      [@[s] EXCEPT !.vy = L.bubbles[s].fallSpeed
                            + (L.bubbles[s].bubbleGravity * (t - L.bubbles[s].spawnTime))
                              \div 1000]]]

\* update(): the bubble loop at time t; the horizontal wobble (at most 10 mm/s) is
\* below the model's resolution
UpdateBubbles(L, t) ==
    LET gone == {s \in DOMAIN L.bubbles :
                    L.bubbles[s].y > WORLD_HEIGHT + L.bubbles[s].radius + 1000}
    IN  [L EXCEPT !.bodies = @ \ gone,
                  !.bubbles = [s \in DOMAIN @ \ gone |->
                      [@[s] EXCEPT !.vy = L.bubbles[s].fallSpeed
                            + (L.bubbles[s].bubbleGravity * (t - L.bubbles[s].spawnTime))
                              \div 1000]]]

NoContact == <<"-", -1>>

\* whether update() emits a position sample at time t
SyncDue(t) ==
    /\ t - lastSyncTime > STATE_SYNC_INTERVAL
    /\ selfId \in DOMAIN players
    /\ ~players[selfId].isGrounded

----------------------------------------------------------------------------
(* history *)

NoPhys == [x |-> 0, y |-> 0, vx |-> 0, vy |-> 0]
PhysOf(a) == [x |-> a.x, y |-> a.y, vx |-> a.vx, vy |-> a.vy]

NullState == [isNull |-> TRUE, poppedBubbles |-> {}, popCounts |-> EmptyFn,
              playerPops |-> EmptyFn]

\* the sets the engine keeps, apart from the scores: retired slots, seen keys,
\* live bubbles, actors
NoProj == [popped |-> {}, seen |-> {}, live |-> {}, actors |-> {}]
Proj(L) == [popped |-> L.poppedIndices, seen |-> L.processedPopEvents,
            live |-> DOMAIN L.bubbles, actors |-> DOMAIN L.players]

\* GameState as its constructor leaves it, with the server's pending timeouts
\* (timers: in the order they were scheduled, and so the order they fire in, for
\* each the number of the round whose end scheduled it), the next id
\* to hand out, the number of rounds begun by nextRound() and whether an uncaught
\* exception ended the process (down)
NewGame == [players |-> <<>>, status |-> "LOBBY", answers |-> <<>>, guesses |-> <<>>,
            readerId |-> 0, guesserId |-> 0, guessedPlayers |-> <<>>,
            eliminationOrder |-> <<>>, revealedCount |-> 0,
            previousRoundEliminationOrder |-> <<>>,
            nextId |-> 1, timers |-> <<>>, rounds |-> 0, down |-> FALSE]

BaseLast == [op |-> "construct", pid |-> "-", slot |-> -1, isLocal |-> FALSE,
             table |-> EmptyFn, pre |-> EmptyFn, seen |-> FALSE, ok |-> FALSE,
             notes |-> 0, synced |-> FALSE, power |-> 0, sample |-> NoPhys,
             known |-> FALSE, was |-> NoPhys, wasGrounded |-> FALSE, wasLast |-> "null",
             tried |-> -1, wasSlot |-> -1, sent |-> 0, selfWas |-> NoPhys,
             again |-> FALSE, preL |-> NoProj, threw |-> FALSE,
             queue |-> <<>>, othersWas |-> EmptyFn,
             actor |-> 0, target |-> 0, text |-> "", success |-> FALSE,
             correct |-> FALSE]

PreCounts == [p \in DOMAIN players |-> players[p].popCount]

Op(name) == [BaseLast EXCEPT !.op = name, !.pre = PreCounts]

\* the operation's target actor before the operation
OpOn(name, pid) ==
    [Op(name) EXCEPT !.pid = pid,
                     !.known = pid \in DOMAIN players,
                     !.was = IF pid \in DOMAIN players THEN PhysOf(players[pid]) ELSE NoPhys,
                     !.wasGrounded = IF pid \in DOMAIN players
                                     THEN players[pid].isGrounded ELSE FALSE,
                     !.wasLast = lastGroundedState]

----------------------------------------------------------------------------
(* operations *)

SetLedger(L) ==
    /\ bubbles' = L.bubbles
    /\ bodies' = L.bodies
    /\ poppedIndices' = L.poppedIndices
    /\ processedPopEvents' = L.processedPopEvents
    /\ players' = L.players
    /\ emitted' = L.emitted
    /\ scored' = L.scored

ledgerVars == <<bubbles, bodies, poppedIndices, processedPopEvents, players, emitted, scored>>
lifeVars == <<initPhase, isReady, isDestroyed, engineRef>>
groundVars == <<selfId, lastGroundedState, notified>>

\* the physics world exists: created by init(), dropped by destroy()
HasWorld == ~isDestroyed /\ (initPhase = "done" \/ (initPhase = "failed" /\ isReady))

\* update() goes past its first line
updateRuns(ready, world, destroyed) == ready /\ world /\ ~destroyed

\* init() going on after its await whatever happened meanwhile
initNeverStops(destroyed) == FALSE

\* init(), resumed after its await, returns at once: the engine was destroyed
initStops(destroyed) == destroyed

RECURSIVE SpawnRange(_, _, _, _, _, _)
\* init(): for (i = from; i <= to; i++) if (i >= 0) spawnDeterministicBubble(i)
SpawnRange(L, from, to, ready, destroyed, t) ==
    IF from > to THEN L
    ELSE SpawnRange(IF from >= 0 THEN spawnDeterministicBubble(L, from, ready, destroyed, t)
                    ELSE L,
                    from + 1, to, ready, destroyed, t)

\* Time passes while init() is suspended in its await.
Elapse(adv) ==
    /\ initPhase = "pending"
    /\ (now + adv) \div BUBBLE_SPAWN_INTERVAL <= MaxSlot
    /\ now' = now + adv
    /\ last' = Op("elapse")
    /\ UNCHANGED <<lifeVars, groundVars, ledgerVars, lastSlotIndex, lastSyncTime, serverState,
                   pendingPlayers, seedVars, removals, nSamples, inst, minigameState, game>>

\* the playerId of a message that carries none: undefined
NoPlayerId == "undefined"

\* the queued calls that come before the first one without a playerId
ReplayedBeforeThrow(q) ==
    SubSeq(q, 1, (CHOOSE k \in 1..Len(q) :
                     /\ q[k].playerId = NoPlayerId
                     /\ \A j \in 1..(k - 1) : q[j].playerId # NoPlayerId) - 1)

\* the replay of the queue throws: addPlayer(undefined) fails in hashString
ReplayThrows(q) == \E k \in 1..Len(q) : q[k].playerId = NoPlayerId

\* init() resumes after its await and runs to its end.
InitComplete ==
    /\ initPhase = "pending"
    /\ initStops(isDestroyed) \/ ~ReplayThrows(pendingPlayers)
    /\ IF initStops(isDestroyed)
       THEN /\ initPhase' = "aborted"
            /\ last' = Op("init")
            /\ UNCHANGED <<isReady, isDestroyed, engineRef, groundVars, ledgerVars,
                           lastSlotIndex, pendingPlayers>>
       ELSE LET currentSlot == now \div BUBBLE_SPAWN_INTERVAL
                L == SpawnRange(Ledger, currentSlot - 10, currentSlot, isReady, isDestroyed, now)
                E == ReplayPending([Actors EXCEPT !.players = L.players], pendingPlayers)
            IN  /\ initPhase' = "done"
                /\ lastSlotIndex' = currentSlot - 1
                /\ isReady' = TRUE
                /\ SetLedger([L EXCEPT !.players = E.players])
                /\ selfId' = E.selfId
                /\ lastGroundedState' = E.lastGroundedState
                /\ notified' = E.notified
                /\ pendingPlayers' = <<>>
                /\ last' = [Op("init") EXCEPT !.ok = TRUE, !.notes = E.notes,
                                              !.queue = pendingPlayers]
                /\ UNCHANGED <<isDestroyed, engineRef>>
    /\ UNCHANGED <<now, lastSyncTime, serverState, seedVars, removals, nSamples, inst,
                   minigameState, game>>

\* init() throws inside its try block and the error is logged.  Thrown while the
\* application or the world is constructed, it leaves the engine as it is.  Thrown
\* by the replay of a queued call without a playerId, it comes after the world,
\* the ticker, lastSlotIndex and isReady = true: the calls queued before that one
\* were carried out, and the queue is not emptied.
InitFail ==
    /\ initPhase = "pending"
    /\ initPhase' = "failed"
    /\ \/ /\ last' = Op("initfail")
          /\ UNCHANGED <<isReady, groundVars, ledgerVars, lastSlotIndex>>
       \/ /\ ~initStops(isDestroyed)
          /\ ReplayThrows(pendingPlayers)
          /\ LET currentSlot == now \div BUBBLE_SPAWN_INTERVAL
                 L == SpawnRange(Ledger, currentSlot - 10, currentSlot, isReady, isDestroyed, now)
                 E == ReplayPending([Actors EXCEPT !.players = L.players],
                                    ReplayedBeforeThrow(pendingPlayers))
             IN  /\ lastSlotIndex' = currentSlot - 1
                 /\ isReady' = TRUE
                 /\ SetLedger([L EXCEPT !.players = E.players])
                 /\ selfId' = E.selfId
                 /\ lastGroundedState' = E.lastGroundedState
                 /\ notified' = E.notified
                 /\ last' = [Op("initfail") EXCEPT !.notes = E.notes, !.queue = pendingPlayers]
    /\ UNCHANGED <<now, isDestroyed, engineRef, lastSyncTime, serverState, pendingPlayers,
                   seedVars, removals, nSamples, inst, minigameState, game>>

\* the bound on this.pendingPlayers
MaxPending == 2

\* wrapper: handlePlayerJoined / the otherPlayers effect -> engine.addPlayer(id, avatar, false)
AddPlayer(pid) ==
    /\ engineRef
    /\ IF ~isReady
       THEN /\ Len(pendingPlayers) < MaxPending
            /\ pendingPlayers' = Append(pendingPlayers, [playerId |-> pid, isOwn |-> FALSE])
            /\ last' = OpOn("add", pid)
            /\ UNCHANGED <<players, groundVars>>
       ELSE LET E == addPlayer(Actors, pid, FALSE)
            IN  /\ players' = E.players
                /\ selfId' = E.selfId
                /\ lastGroundedState' = E.lastGroundedState
                /\ notified' = E.notified
                /\ last' = [OpOn("add", pid) EXCEPT !.ok = TRUE, !.notes = E.notes]
                /\ UNCHANGED pendingPlayers
    /\ UNCHANGED <<now, lifeVars, bubbles, bodies, poppedIndices, processedPopEvents, emitted,
                   scored, lastSlotIndex, lastSyncTime, serverState, seedVars, removals, nSamples,
                   inst, minigameState, game>>

\* wrapper: handlePlayerJoined for a message without playerId (undefined !==
\* selfId): engine.addPlayer(undefined, avatar, false).  An engine that is not
\* ready queues the call; a ready one throws in hashString(undefined).
AddPlayerNoId ==
    /\ engineRef
    /\ IF ~isReady
       THEN /\ Len(pendingPlayers) < MaxPending
            /\ pendingPlayers' = Append(pendingPlayers,
                                        [playerId |-> NoPlayerId, isOwn |-> FALSE])
            /\ last' = OpOn("add", NoPlayerId)
       ELSE /\ last' = [OpOn("add", NoPlayerId) EXCEPT !.threw = TRUE]
            /\ UNCHANGED pendingPlayers
    /\ UNCHANGED <<now, lifeVars, groundVars, ledgerVars, lastSlotIndex, lastSyncTime,
                   serverState, seedVars, removals, nSamples, inst, minigameState, game>>

\* wrapper cleanup: engine.destroy(); engineRef.current = null
Destroy ==
    /\ engineRef
    /\ isDestroyed' = TRUE
    /\ isReady' = FALSE
    /\ engineRef' = FALSE
    /\ last' = Op("destroy")
    /\ UNCHANGED <<now, initPhase, groundVars, ledgerVars, lastSlotIndex, lastSyncTime,
                   serverState, pendingPlayers, seedVars, removals, nSamples, inst,
                      minigameState, game>>

\* One ticker callback, adv ms after the previous one: update().  contact is the
\* avatar/bubble contact the physics step reports (or NoContact), refused whether
\* the locked world refuses to destroy the popped body, phys the step's outcome
\* for each moving avatar.
Frame(adv, contact, refused, phys) ==
    /\ updateRuns(isReady, HasWorld, isDestroyed)
    /\ (now + adv) \div BUBBLE_SPAWN_INTERVAL \in DOMAIN slotParams
    /\ LET t == now + adv
           currentSlot == t \div BUBBLE_SPAWN_INTERVAL
           dt == IF adv < MaxFrameDelta THEN adv ELSE MaxFrameDelta
       IN
       \E L1 \in {IF currentSlot > lastSlotIndex
                  THEN spawnDeterministicBubble(Ledger, currentSlot, isReady, isDestroyed, t)
                  ELSE Ledger} :
       LET synced == SyncDue(t)
           L2 == IF contact = NoContact THEN L1
                 ELSE handleBubblePop(L1, contact[2], contact[1], TRUE, refused)
           L3 == UpdateBubbles([L2 EXCEPT !.bubbles = StepBubbles(@, dt)], t)
           P == [pid \in DOMAIN L3.players |->
                    Settle(worldStepAvatar(L3.players[pid], phys[pid]))]
           grounded == isPlayerGrounded(P, selfId)
           changed == selfId \in DOMAIN P /\ B2S(grounded) # lastGroundedState
       IN  /\ contact # NoContact => contact[1] \in DOMAIN players /\ contact[2] \in L1.bodies
           /\ contact = NoContact => ~refused
           /\ now' = t
           /\ lastSlotIndex' = IF currentSlot > lastSlotIndex THEN currentSlot ELSE lastSlotIndex
           /\ lastSyncTime' = IF synced THEN t ELSE lastSyncTime
           /\ SetLedger([L3 EXCEPT !.players = P])
           /\ lastGroundedState' = IF changed THEN B2S(grounded) ELSE lastGroundedState
           /\ notified' = IF changed THEN Note(notified, grounded) ELSE notified
           /\ last' = [OpOn("update", contact[1]) EXCEPT
                          !.slot = contact[2], !.isLocal = contact # NoContact,
                          !.seen = contact \in processedPopEvents,
                          !.synced = synced, !.notes = IF changed THEN 1 ELSE 0,
                          !.tried = IF currentSlot > lastSlotIndex THEN currentSlot ELSE -1,
                          !.wasSlot = lastSlotIndex,
                          !.sent = IF L2.emitted # L1.emitted THEN 1 ELSE 0,
                          !.selfWas = IF synced THEN PhysOf(players[selfId]) ELSE NoPhys,
                          !.othersWas = [pid \in DOMAIN players \ {selfId} |->
                                            PhysOf(players[pid])],
                          !.preL = Proj(Ledger)]
    /\ UNCHANGED <<lifeVars, selfId, serverState, pendingPlayers, seedVars, removals, nSamples, inst,
                   minigameState, game>>

\* the keys (playerId, bubbleId) of a snapshot's playerPops ledger
KeysOf(state) ==
    {k \in Keys : k[1] \in DOMAIN state.playerPops /\ k[2] \in state.playerPops[k[1]]}

\* the engine has just applied the snapshot it holds, and since then only that
\* snapshot again or pop messages whose keys it contains
JustSynced == (last.op = "snapshot" /\ last.ok) \/ last.again

\* wrapper: handleBubblePopped -> engine.handleBubblePop(bubbleId, playerId, false)
RemotePop(pid, slot) ==
    /\ engineRef
    /\ pid # SelfPid
    /\ SetLedger(handleBubblePop(Ledger, slot, pid, FALSE, FALSE))
    /\ LET L == handleBubblePop(Ledger, slot, pid, FALSE, FALSE)
           again == JustSynced /\ <<pid, slot>> \in KeysOf(serverState)
       IN  last' = [OpOn("remotepop", pid) EXCEPT !.slot = slot,
                       !.seen = <<pid, slot>> \in processedPopEvents,
                       !.sent = IF L.emitted # emitted THEN 1 ELSE 0,
                       !.again = again,
                       !.preL = Proj(Ledger)]
    /\ UNCHANGED <<now, lifeVars, groundVars, lastSlotIndex, lastSyncTime, serverState,
                   pendingPlayers, seedVars, removals, nSamples, inst, minigameState, game>>

\* authoritative score tables: counts for some of the session's players
ScoreTables == UNION {[S -> 1..MaxCount] : S \in SUBSET {SelfPid, "b"}}

\* wrapper: handleScores -> engine.syncScores(popCounts)
Scores(table) ==
    /\ engineRef
    /\ players' = syncScores(players, selfId, table)
    /\ last' = [Op("scores") EXCEPT !.table = table]
    /\ UNCHANGED <<now, lifeVars, groundVars, bubbles, bodies, poppedIndices,
                   processedPopEvents, emitted, scored, lastSlotIndex, lastSyncTime,
                   serverState, pendingPlayers, seedVars, removals, nSamples, inst,
                      minigameState, game>>

\* the snapshot of a server ledger in which the slots of byA were popped by the
\* local player and those of byB by player b
SnapshotOf(byA, byB) ==
    [isNull |-> FALSE,
     poppedBubbles |-> byA \cup byB,
     popCounts |-> [pid \in {p \in {SelfPid, "b"} :
                                 (IF p = SelfPid THEN byA ELSE byB) # {}} |->
                       Cardinality(IF pid = SelfPid THEN byA ELSE byB)],
     playerPops |-> [pid \in {p \in {SelfPid, "b"} :
                                 (IF p = SelfPid THEN byA ELSE byB) # {}} |->
                       IF pid = SelfPid THEN byA ELSE byB]]

Snapshots == {NullState, SnapshotOf({}, {}), SnapshotOf({0}, {}), SnapshotOf({1}, {0}),
              SnapshotOf({}, {0, 1})}

\* wrapper: handleFullMinigameState -> engine.syncMinigameState(state)
Snapshot(state) ==
    /\ engineRef
    /\ IF state.isNull
       THEN UNCHANGED <<ledgerVars, serverState>>
       ELSE /\ serverState' = state
            /\ SetLedger(syncMinigameState(Ledger, selfId, state))
    /\ LET again == JustSynced /\ ~state.isNull /\ state = serverState
       IN  last' = [Op("snapshot") EXCEPT !.table = state.popCounts, !.ok = ~state.isNull,
                       !.again = again,
                       !.preL = IF again THEN Proj(Ledger) ELSE NoProj]
    /\ UNCHANGED <<now, lifeVars, groundVars, lastSlotIndex, lastSyncTime,
                   pendingPlayers, seedVars, removals, nSamples, inst, minigameState, game>>

----------------------------------------------------------------------------
(* server: GameState, the word game *)

Range(q) == {q[i] : i \in 1..Len(q)}

\* Player ids are 1, 2, ... in the order randomUUID() hands them out; 0 stands
\* for null and undefined.  Names, avatars, socket ids, the prompt and the
\* archived previousRound are left out: no branch of the rules reads them.
MaxPlayers == 3
\* how many times nextRound() runs
MaxRounds == 3
\* how many guesses a round records
MaxGuesses == 2

PlayerIds == 1..MaxPlayers
Texts == {"x", "y"}

IdsOf(G) == {G.players[i].id : i \in 1..Len(G.players)}

\* players.findIndex(p => p.id === id), 0-based, -1 when absent
IndexOfPlayer(G, id) ==
    IF id \in IdsOf(G)
    THEN (CHOOSE i \in 1..Len(G.players) : G.players[i].id = id) - 1
    ELSE -1

\* array.indexOf(id), 0-based, -1 when absent
IndexIn(q, id) ==
    IF id \in Range(q)
    THEN (CHOOSE i \in 1..Len(q) : q[i] = id /\ \A j \in 1..(i - 1) : q[j] # id) - 1
    ELSE -1

Least(S) == CHOOSE k \in S : \A j \in S : k <= j

Connected(G) == {G.players[i].id : i \in {j \in 1..Len(G.players) : G.players[j].connected}}

AddScore(G, id, d) ==
    [G EXCEPT !.players = [i \in 1..Len(G.players) |->
                              IF G.players[i].id = id
                              THEN [G.players[i] EXCEPT !.score = @ + d]
                              ELSE G.players[i]]]

SetConnected(G, id, c) ==
    [G EXCEPT !.players = [i \in 1..Len(G.players) |->
                              IF G.players[i].id = id
                              THEN [G.players[i] EXCEPT !.connected = c]
                              ELSE G.players[i]]]

\* shuffleArray(array): the array in the relative order that `order`, a
\* permutation of 1..MaxPlayers, gives to its positions.  Orders holds every
\* permutation, so every outcome of the Fisher-Yates loop on an array of up to
\* MaxPlayers elements.
Orders == {o \in [1..MaxPlayers -> 1..MaxPlayers] : \A i, j \in 1..MaxPlayers : o[i] = o[j] => i = j}
shuffleArray(array, order) ==
    LET n == Len(array)
        sub == SelectSeq(order, LAMBDA v : v <= n)
    IN  [i \in 1..n |-> array[sub[i]]]

\* addPlayer(socketId, name, avatar)
gameAddPlayer(G) ==
    [G EXCEPT !.players = Append(@, [id |-> G.nextId, score |-> 0, connected |-> TRUE]),
              !.nextId = @ + 1]

\* rejoinPlayer(socketId, playerId), and findActivePlayerOrHeal for a player
\* named by the message: the player is connected afterwards
rejoinPlayer(G, playerId) == SetConnected(G, playerId, TRUE)

\* disconnectPlayer(socketId), for the socket of player id
disconnectPlayer(G, id) == SetConnected(G, id, FALSE)

\* removePlayer(socketId): id is the player the socket belongs to, 0 when it
\* belongs to none
removePlayer(G, id, order) ==
    LET G1 == [G EXCEPT !.players = SelectSeq(@, LAMBDA p : p.id # id)]
        writers == Connected(G1)
    IN  IF /\ G1.status = "WRITING"
           /\ Len(G1.answers) >= Cardinality(writers)
           /\ Cardinality(writers) > 0
        THEN [G1 EXCEPT !.answers = shuffleArray(@, order), !.status = "READING"]
        ELSE G1

\* the reader of the next round: the first connected player after the
\* current reader, in list order
NextReaderIndex(G) ==
    LET n == Len(G.players)
        start == (IndexOfPlayer(G, G.readerId) + 1) % n
        found == {k \in 0..(n - 1) : G.players[((start + k) % n) + 1].connected}
    IN  IF found = {} THEN start ELSE (start + Least(found)) % n

\* the first guesser of the next round, given its reader and the previous
\* round's elimination order
FirstGuesser(G, readerId, order) ==
    LET n == Len(G.players)
        here == {i \in 1..Len(order) : order[i] \in Connected(G)}
    IN  IF here # {}
        THEN order[Least(here)]
        ELSE G.players[((IndexOfPlayer(G, readerId) + 1) % n) + 1].id

\* nextRound().  With no player left, `this.players[0].id` throws after the
\* status and the previous elimination order were written; the exception is
\* not caught and ends the process (down).
nextRound(G) ==
    IF Len(G.players) = 0
    THEN [G EXCEPT !.status = "WRITING",
                   !.previousRoundEliminationOrder = G.eliminationOrder,
                   !.down = TRUE]
    ELSE LET readerId == G.players[NextReaderIndex(G) + 1].id
         IN  [G EXCEPT !.status = "WRITING",
                       !.previousRoundEliminationOrder = G.eliminationOrder,
                       !.answers = <<>>,
                       !.guesses = <<>>,
                       !.readerId = readerId,
                       !.guessedPlayers = <<>>,
                       !.eliminationOrder = <<>>,
                       !.revealedCount = 0,
                       !.guesserId = FirstGuesser(G, readerId, G.eliminationOrder),
                       !.rounds = @ + 1]

\* startGame() starting whatever the number of connected players
startGameAnyCount(G) ==
    [state |-> nextRound([G EXCEPT !.players = [i \in 1..Len(G.players) |->
                                         [G.players[i] EXCEPT !.score = 0]]]),
     result |-> TRUE]

\* startGame(): the game after the call and the value returned
startGame(G) ==
    IF Cardinality(Connected(G)) < 3
    THEN [state |-> G, result |-> FALSE]
    ELSE [state |-> nextRound([G EXCEPT !.players = [i \in 1..Len(G.players) |->
                                              [G.players[i] EXCEPT !.score = 0]]]),
          result |-> TRUE]

\* submitAnswer(playerId, text)
submitAnswer(G, playerId, text, order) ==
    IF G.status # "WRITING"
    THEN [state |-> G, result |-> FALSE]
    ELSE LET has == \E i \in 1..Len(G.answers) : G.answers[i].playerId = playerId
             at == CHOOSE i \in 1..Len(G.answers) :
                       /\ G.answers[i].playerId = playerId
                       /\ \A j \in 1..(i - 1) : G.answers[j].playerId # playerId
             answers == IF has
                        THEN [G.answers EXCEPT ![at].text = text]
                        ELSE Append(G.answers,
                                    [playerId |-> playerId, text |-> text,
                                     isRevealed |-> FALSE, isGuessed |-> FALSE,
                                     wrongGuesses |-> <<>>])
         IN  [state |-> IF Len(answers) >= Len(G.players)
                        THEN [G EXCEPT !.answers = shuffleArray(answers, order),
                                       !.status = "READING"]
                        ELSE [G EXCEPT !.answers = answers],
              result |-> TRUE]

\* revealNextAnswer()
revealNextAnswer(G) ==
    IF G.status # "READING" \/ G.revealedCount >= Len(G.answers)
    THEN [state |-> G, result |-> FALSE]
    ELSE LET G1 == [G EXCEPT !.answers[G.revealedCount + 1].isRevealed = TRUE,
                             !.revealedCount = @ + 1]
         IN  [state |-> IF G1.revealedCount = Len(G1.answers)
                        THEN [G1 EXCEPT !.status = "GUESSING"] ELSE G1,
              result |-> TRUE]

\* startGuessing()
startGuessing(G) == [G EXCEPT !.status = "GUESSING"]

\* the sequential search of advanceTurn(): the first player after the guesser,
\* in list order and wrapping round to the guesser, who is not in guessedPlayers
SequentialTurn(G) ==
    LET n == Len(G.players)
        start == IndexOfPlayer(G, G.guesserId) + 1
        found == {k \in 0..(n - 1) :
                     G.players[((start + k) % n) + 1].id \notin Range(G.guessedPlayers)}
    IN  IF n = 0 \/ found = {}
        THEN G
        ELSE [G EXCEPT !.guesserId = G.players[((start + Least(found)) % n) + 1].id]

\* advanceTurn()
advanceTurn(G) ==
    LET order == G.previousRoundEliminationOrder
        m == Len(order)
        start == IndexIn(order, G.guesserId) + 1
        found == {k \in 0..(m - 1) :
                     LET id == order[((start + k) % m) + 1]
                     IN  id \in IdsOf(G) /\ id \notin Range(G.guessedPlayers)}
    IN  IF m = 0 \/ found = {}
        THEN SequentialTurn(G)
        ELSE [G EXCEPT !.guesserId = order[((start + Least(found)) % m) + 1]]

Unguessed(G) == {i \in 1..Len(G.answers) : ~G.answers[i].isGuessed}

\* the answer makeGuess finds for a text: the first unguessed one, 0 for none
FindAnswer(G, answerText) ==
    LET found == {i \in Unguessed(G) : G.answers[i].text = answerText}
    IN  IF found = {} THEN 0 ELSE Least(found)

GuessData(guesserId, targetPlayerId, answerText, correct) ==
    [guesserId |-> guesserId, targetId |-> targetPlayerId, answerText |-> answerText,
     correct |-> correct]

Rejected(G) == [state |-> G, success |-> FALSE, correct |-> FALSE]

\* the correct-guess branch of makeGuess ending the round only when no answer is
\* left unguessed
CorrectGuessUntilNoneLeft(G, guesserId, targetPlayerId, answerText, i) ==
    LET G1 == AddScore([G EXCEPT !.answers[i].isGuessed = TRUE,
                                 !.guesses = Append(@, GuessData(guesserId, targetPlayerId,
                                                                 answerText, TRUE)),
                                 !.guessedPlayers = Append(@, targetPlayerId),
                                 !.eliminationOrder = Append(@, targetPlayerId)],
                       guesserId, 1)
    IN  IF Unguessed(G1) = {} THEN [G1 EXCEPT !.status = "ROUND_OVER"] ELSE G1

\* the correct-guess branch of makeGuess for answer i
CorrectGuess(G, guesserId, targetPlayerId, answerText, i) ==
    LET G1 == AddScore([G EXCEPT !.answers[i].isGuessed = TRUE,
                                 !.guesses = Append(@, GuessData(guesserId, targetPlayerId,
                                                                 answerText, TRUE)),
                                 !.guessedPlayers = Append(@, targetPlayerId),
                                 !.eliminationOrder = Append(@, targetPlayerId)],
                       guesserId, 1)
        unguessedAnswers == Unguessed(G1)
        answersNotBelongingToGuesser ==
            {j \in unguessedAnswers : G1.answers[j].playerId # guesserId}
        survivorId == G1.answers[Least(unguessedAnswers)].playerId
    IN  IF unguessedAnswers = {} \/ answersNotBelongingToGuesser = {}
        THEN IF Cardinality(unguessedAnswers) = 1
             THEN [AddScore(G1, survivorId, 1) EXCEPT
                       !.eliminationOrder = Append(@, survivorId),
                       !.status = "ROUND_OVER"]
             ELSE [G1 EXCEPT !.status = "ROUND_OVER"]
        ELSE G1

\* the incorrect-guess branch of makeGuess for answer i
IncorrectGuess(G, guesserId, targetPlayerId, answerText, i) ==
    advanceTurn([G EXCEPT !.answers[i].wrongGuesses = Append(@, targetPlayerId),
                          !.guesses = Append(@, GuessData(guesserId, targetPlayerId,
                                                          answerText, FALSE))])

\* makeGuess taking a guess from any player
makeGuessAnyCaller(G, guesserId, targetPlayerId, answerText) ==
    LET i == FindAnswer(G, answerText)
    IN  IF G.status # "GUESSING" \/ i = 0
        THEN Rejected(G)
        ELSE IF G.answers[i].playerId = targetPlayerId
        THEN [state |-> CorrectGuess(G, guesserId, targetPlayerId, answerText, i),
              success |-> TRUE, correct |-> TRUE]
        ELSE [state |-> IncorrectGuess(G, guesserId, targetPlayerId, answerText, i),
              success |-> TRUE, correct |-> FALSE]

\* makeGuess(guesserId, targetPlayerId, answerText): the game after the call and
\* the result's success and correct
makeGuess(G, guesserId, targetPlayerId, answerText) ==
    LET i == FindAnswer(G, answerText)
    IN  IF G.status # "GUESSING" \/ guesserId # G.guesserId \/ i = 0
        THEN Rejected(G)
        ELSE IF G.answers[i].playerId = targetPlayerId
        THEN [state |-> CorrectGuess(G, guesserId, targetPlayerId, answerText, i),
              success |-> TRUE, correct |-> TRUE]
        ELSE [state |-> IncorrectGuess(G, guesserId, targetPlayerId, answerText, i),
              success |-> TRUE, correct |-> FALSE]

----------------------------------------------------------------------------
(* server: GameState's minigame ledger *)

\* this.minigameState as the constructor and nextRound() set it
NoPops == [popCounts |-> EmptyFn, poppedBubbles |-> <<>>, playerPops |-> EmptyFn]

\* recordMinigamePop counting every report
recordMinigamePopEveryReport(M, playerId, bubbleId) ==
    LET pops == IF playerId \in DOMAIN M.playerPops THEN M.playerPops[playerId] ELSE {}
        count == IF playerId \in DOMAIN M.popCounts THEN M.popCounts[playerId] ELSE 0
        M1 == [M EXCEPT !.playerPops = With(@, playerId, pops \cup {bubbleId}),
                        !.popCounts = With(@, playerId, count + 1)]
        first == bubbleId \notin Range(M.poppedBubbles)
    IN  [state |-> IF first THEN [M1 EXCEPT !.poppedBubbles = Append(@, bubbleId)] ELSE M1,
         result |-> first]

\* recordMinigamePop pushing the bubble id without looking for it in the list
recordMinigamePopAlwaysPush(M, playerId, bubbleId) ==
    LET pops == IF playerId \in DOMAIN M.playerPops THEN M.playerPops[playerId] ELSE {}
        count == IF playerId \in DOMAIN M.popCounts THEN M.popCounts[playerId] ELSE 0
    IN  IF bubbleId \in pops
        THEN [state |-> M, result |-> FALSE]
        ELSE [state |-> [M EXCEPT !.playerPops = With(@, playerId, pops \cup {bubbleId}),
                                  !.popCounts = With(@, playerId, count + 1),
                                  !.poppedBubbles = Append(@, bubbleId)],
              result |-> bubbleId \notin Range(M.poppedBubbles)]

\* recordMinigamePop returning true for every pop it counts
recordMinigamePopTrueWhenCounted(M, playerId, bubbleId) ==
    LET pops == IF playerId \in DOMAIN M.playerPops THEN M.playerPops[playerId] ELSE {}
        count == IF playerId \in DOMAIN M.popCounts THEN M.popCounts[playerId] ELSE 0
    IN  IF bubbleId \in pops
        THEN [state |-> M, result |-> FALSE]
        ELSE LET M1 == [M EXCEPT !.playerPops = With(@, playerId, pops \cup {bubbleId}),
                                 !.popCounts = With(@, playerId, count + 1)]
                 first == bubbleId \notin Range(M.poppedBubbles)
             IN  [state |-> IF first THEN [M1 EXCEPT !.poppedBubbles = Append(@, bubbleId)]
                            ELSE M1,
                  result |-> TRUE]

\* recordMinigamePop(playerId, bubbleId): the ledger after the call and the
\* value returned
recordMinigamePop(M, playerId, bubbleId) ==
    LET pops == IF playerId \in DOMAIN M.playerPops THEN M.playerPops[playerId] ELSE {}
        count == IF playerId \in DOMAIN M.popCounts THEN M.popCounts[playerId] ELSE 0
    IN  IF bubbleId \in pops
        THEN [state |-> M, result |-> FALSE]
        ELSE LET M1 == [M EXCEPT !.playerPops = With(@, playerId, pops \cup {bubbleId}),
                                 !.popCounts = With(@, playerId, count + 1)]
                 first == bubbleId \notin Range(M.poppedBubbles)
             IN  [state |-> IF first THEN [M1 EXCEPT !.poppedBubbles = Append(@, bubbleId)]
                            ELSE M1,
                  result |-> first]

engineVars == <<now, lifeVars, groundVars, ledgerVars, lastSlotIndex, lastSyncTime,
                serverState, pendingPlayers, seedVars, removals, nSamples, inst>>

\* the count the server holds for a player
CountAt(M, playerId) == IF playerId \in DOMAIN M.popCounts THEN M.popCounts[playerId] ELSE 0

\* the server receives a client's 'minigame_bubble_popped' {playerId, bubbleId}
ServerReceivesPop(playerId, bubbleId) ==
    LET R == recordMinigamePop(minigameState, playerId, bubbleId)
    IN  /\ minigameState' = R.state
        /\ last' = [Op("report") EXCEPT !.pid = playerId, !.slot = bubbleId,
                       !.seen = /\ playerId \in DOMAIN minigameState.playerPops
                                /\ bubbleId \in minigameState.playerPops[playerId],
                       !.tried = CountAt(minigameState, playerId),
                       !.again = bubbleId \in Range(minigameState.poppedBubbles),
                       !.ok = R.result]
        /\ UNCHANGED <<engineVars, game>>

\* nextRound(): a new round, and the minigame ledger is reset for it; with no
\* player the call throws before it reaches the ledger
ServerNextRound ==
    /\ game' = nextRound(game)
    /\ minigameState' = IF Len(game.players) = 0 THEN minigameState ELSE NoPops
    /\ last' = [Op("round") EXCEPT !.threw = Len(game.players) = 0]
    /\ UNCHANGED engineVars

(* the server's socket handlers over GameState *)

GameOp(name, actor) == [Op(name) EXCEPT !.actor = actor]

\* 'join_game'
JoinGame ==
    /\ ~game.down
    /\ game.nextId <= MaxPlayers
    /\ game' = gameAddPlayer(game)
    /\ last' = GameOp("join_game", game.nextId)
    /\ UNCHANGED <<engineVars, minigameState>>

\* 'rejoin_game' {playerId} naming a player of the game
RejoinGame(playerId) ==
    /\ ~game.down
    /\ playerId \in IdsOf(game)
    /\ game' = rejoinPlayer(game, playerId)
    /\ last' = GameOp("rejoin_game", playerId)
    /\ UNCHANGED <<engineVars, minigameState>>

\* 'disconnect' of the socket of a connected player
Disconnect(playerId) ==
    /\ ~game.down
    /\ playerId \in Connected(game)
    /\ game' = disconnectPlayer(game, playerId)
    /\ last' = GameOp("disconnect", playerId)
    /\ UNCHANGED <<engineVars, minigameState>>

\* 'leave_game' from the socket of a connected player, or (0) from a socket
\* that belongs to no player
LeaveGame(playerId, order) ==
    /\ ~game.down
    /\ playerId \in Connected(game) \cup {0}
    /\ game' = removePlayer(game, playerId, order)
    /\ last' = GameOp("leave_game", playerId)
    /\ UNCHANGED <<engineVars, minigameState>>

\* 'start_game'
StartGame ==
    LET R == startGame(game)
    IN  /\ ~game.down
        /\ game' = R.state
        /\ minigameState' = IF R.result THEN NoPops ELSE minigameState
        /\ last' = [GameOp("start_game", 0) EXCEPT !.success = R.result]
        /\ UNCHANGED engineVars

\* 'submit_answer' {text, playerId} from a player of the game
SubmitAnswer(playerId, text, order) ==
    LET R == submitAnswer(rejoinPlayer(game, playerId), playerId, text, order)
    IN  /\ ~game.down
        /\ playerId \in IdsOf(game)
        /\ game' = R.state
        /\ last' = [GameOp("submit_answer", playerId) EXCEPT !.text = text,
                                                              !.success = R.result]
        /\ UNCHANGED <<engineVars, minigameState>>

\* 'reveal_answer' {playerId} from a player of the game
RevealAnswer(playerId) ==
    LET G1 == rejoinPlayer(game, playerId)
        R == IF G1.readerId # playerId
             THEN [state |-> G1, result |-> FALSE]
             ELSE revealNextAnswer(G1)
    IN  /\ ~game.down
        /\ playerId \in IdsOf(game)
        /\ game' = R.state
        /\ last' = [GameOp("reveal_answer", playerId) EXCEPT !.success = R.result]
        /\ UNCHANGED <<engineVars, minigameState>>

\* gameState.startGuessing(), which no handler of index.js calls
StartGuessing ==
    /\ ~game.down
    /\ game' = startGuessing(game)
    /\ last' = GameOp("start_guessing", 0)
    /\ UNCHANGED <<engineVars, minigameState>>

\* 'make_guess' {targetPlayerId, answerText, playerId} from a player of the
\* game; a guess that ends the round schedules nextRound() in 5 seconds
MakeGuess(playerId, targetPlayerId, answerText) ==
    LET R == makeGuess(rejoinPlayer(game, playerId), playerId, targetPlayerId, answerText)
    IN  /\ ~game.down
        /\ playerId \in IdsOf(game)
        /\ Len(game.guesses) < MaxGuesses
        /\ game' = IF R.success /\ R.state.status = "ROUND_OVER"
                   THEN [R.state EXCEPT !.timers = Append(@, R.state.rounds)]
                   ELSE R.state
        /\ last' = [GameOp("make_guess", playerId) EXCEPT !.target = targetPlayerId,
                                                           !.text = answerText,
                                                           !.success = R.success,
                                                           !.correct = R.correct]
        /\ UNCHANGED <<engineVars, minigameState>>

\* 'next_round' {playerId} from a player of the game
NextRound(playerId) ==
    /\ ~game.down
    /\ playerId \in IdsOf(game)
    /\ game' = nextRound(rejoinPlayer(game, playerId))
    /\ minigameState' = NoPops
    /\ last' = GameOp("next_round", playerId)
    /\ UNCHANGED engineVars

\* the callback of the oldest pending timeout runs; 'make_guess' scheduled it at
\* the end of round r. Every timeout has the same delay of 5000 ms, so they fire
\* in the order they were scheduled, one callback each.
AutoAdvance(r) ==
    /\ ~game.down
    /\ game.timers # <<>>
    /\ r = Head(game.timers)
    /\ game' = nextRound([game EXCEPT !.timers = Tail(@)])
    /\ minigameState' = IF Len(game.players) = 0 THEN minigameState ELSE NoPops
    /\ last' = [GameOp("timeout", 0) EXCEPT !.slot = r]
    /\ UNCHANGED engineVars

\* the answers' order as submitted
Unshuffled == [i \in 1..MaxPlayers |-> i]

\* the outcome of a shuffle is drawn only where a shuffle can take place: while
\* answers are written and at least one is there or about to be
ShuffleMatters(order) ==
    order # Unshuffled => game.status = "WRITING" /\ Len(game.answers) + 1 >= 2

\* play: joins, disconnections and returns while in the lobby, then one round
NextGame ==
    \/ JoinGame
    \/ \E playerId \in PlayerIds : game.status = "LOBBY" /\ RejoinGame(playerId)
    \/ \E playerId \in PlayerIds : game.status = "LOBBY" /\ Disconnect(playerId)
    \/ game.rounds < 1 /\ StartGame
    \/ \E playerId \in PlayerIds, text \in Texts, order \in Orders :
           /\ ShuffleMatters(order)
           /\ SubmitAnswer(playerId, text, order)
    \/ \E playerId \in PlayerIds : RevealAnswer(playerId)
    \/ StartGuessing
    \/ \E playerId \in PlayerIds, targetPlayerId \in PlayerIds, answerText \in Texts :
           MakeGuess(playerId, targetPlayerId, answerText)
    \/ \E playerId \in PlayerIds : game.rounds < 1 /\ NextRound(playerId)

\* rounds: one round after another, each advanced by 'next_round' while or
\* after it is guessed, or by a timeout
NextRounds ==
    \/ JoinGame
    \/ \E playerId \in PlayerIds : game.status = "LOBBY" /\ Disconnect(playerId)
    \/ game.rounds < MaxRounds /\ StartGame
    \/ \E playerId \in PlayerIds : SubmitAnswer(playerId, "x", Unshuffled)
    \/ \E playerId \in PlayerIds : RevealAnswer(playerId)
    \/ \E playerId \in PlayerIds, targetPlayerId \in PlayerIds :
           MakeGuess(playerId, targetPlayerId, "x")
    \/ \E playerId \in PlayerIds :
           /\ game.rounds < MaxRounds
           /\ game.status \in {"GUESSING", "ROUND_OVER"}
           /\ NextRound(playerId)
    \/ \E r \in 1..MaxRounds : game.rounds < MaxRounds /\ AutoAdvance(r)

\* presence: players coming and going while a round is written, read and
\* guessed
NextPresence ==
    \/ JoinGame
    \/ \E playerId \in PlayerIds : RejoinGame(playerId)
    \/ \E playerId \in PlayerIds : Disconnect(playerId)
    \/ \E playerId \in PlayerIds \cup {0}, order \in Orders :
           ShuffleMatters(order) /\ LeaveGame(playerId, order)
    \/ game.rounds < 1 /\ StartGame
    \/ \E playerId \in PlayerIds, order \in Orders :
           ShuffleMatters(order) /\ SubmitAnswer(playerId, "x", order)
    \/ \E playerId \in PlayerIds : RevealAnswer(playerId)
    \/ \E playerId \in PlayerIds, targetPlayerId \in PlayerIds :
           MakeGuess(playerId, targetPlayerId, "x")

NextServer ==
    \/ JoinGame
    \/ \E playerId \in AllPids, bubbleId \in Slots : ServerReceivesPop(playerId, bubbleId)
    \/ game.rounds < MaxRounds /\ ServerNextRound

----------------------------------------------------------------------------
(* the ledger specification: lifecycle, spawning, pops, scores, snapshots *)

\* One engine instance of SpecSpawn: the slots it was asked to spawn, in order,
\* what it derived for each slot, the number of wobble draws it made, and the
\* state of the generator it created last.
NoInst(seed) ==
    [e \in {1, 2} |-> [spawned |-> <<>>, results |-> [s \in Slots |-> {}], wobbles |-> 0,
                       gen |-> createPRNG(seed)]]

\* the state after the constructor and the wrapper's mount effect, for the
\* wrapper's syncSeed prop hashing to seed
InitWith(seed) ==
    /\ now = 0
    /\ initPhase = "pending"
    /\ isReady = FALSE
    /\ isDestroyed = FALSE
    /\ engineRef = TRUE
    /\ selfId = SelfPid
    /\ players = EmptyFn
    /\ bubbles = EmptyFn
    /\ bodies = {}
    /\ poppedIndices = {}
    /\ processedPopEvents = {}
    /\ lastSlotIndex = -1
    /\ lastSyncTime = 0
    /\ serverState = NullState
    /\ lastGroundedState = "null"
    /\ pendingPlayers = <<[playerId |-> SelfPid, isOwn |-> TRUE]>>
    /\ syncSeed = seed
    /\ slotParams = SlotParams(seed)
    /\ emitted = [k \in Keys |-> 0]
    /\ notified = <<>>
    /\ scored = [k \in Keys |-> 0]
    /\ nSamples = 0
    /\ last = BaseLast
    /\ removals = {}
    /\ inst = NoInst(seed)
    /\ minigameState = NoPops
    /\ game = NewGame

Init == InitWith(hashString(SeedAB))

\* clock advances between two steps, ms
Advances == {1000}
AtRest == [p \in AllPids |-> "rest"]
Contacts == {NoContact} \cup ({SelfPid} \cup OtherPids) \X Slots

Next ==
    \/ \E adv \in Advances : Elapse(adv)
    \/ InitComplete
    \/ InitFail
    \/ \E pid \in OtherPids : AddPlayer(pid)
    \/ Destroy
    \/ \E adv \in Advances, contact \in Contacts, refused \in BOOLEAN :
           Frame(adv, contact, refused, AtRest)
    \/ \E pid \in OtherPids \cup {UnknownPid}, slot \in Slots : RemotePop(pid, slot)
    \/ \E table \in ScoreTables : Scores(table)
    \/ \E state \in Snapshots : Snapshot(state)

Spec == Init /\ [][Next]_vars

\* the server's ledger under pop reports in any order and number
SpecServer == Init /\ [][NextServer]_vars

\* one round of the word game
SpecGame == Init /\ [][NextGame]_vars

\* the word game over several rounds
SpecRounds == Init /\ [][NextRounds]_vars

\* the word game while players disconnect, return and leave
SpecPresence == Init /\ [][NextPresence]_vars

----------------------------------------------------------------------------
(* the motion specification: launches, position samples, physics steps *)

\* engine.launchAvatar(pid, angle, power), called by the wrapper handler `name`
Launch(name, pid, angle, power) ==
    LET ok == launchAllowed(players, isReady, pid)
        own == ok /\ pid = selfId
    IN  /\ players' = IF ok THEN launchAvatar(players, pid, angle, power) ELSE players
        /\ lastGroundedState' = IF own THEN "false" ELSE lastGroundedState
        /\ notified' = IF own THEN Note(notified, FALSE) ELSE notified
        /\ last' = [OpOn(name, pid) EXCEPT !.ok = ok, !.power = power,
                       !.notes = IF own THEN 1 ELSE 0]
        /\ UNCHANGED <<now, lifeVars, selfId, bubbles, bodies, poppedIndices,
                       processedPopEvents, emitted, scored, lastSlotIndex, lastSyncTime,
                       serverState, pendingPlayers, seedVars, removals, nSamples, inst,
                          minigameState, game>>

\* the drag, in px, that handleDragEnd asks for more than
MinDragDistance == 20

\* wrapper: handleDragEnd at the end of a drag of dist px, dragPower being
\* dist * LAUNCH_DRAG_SCALE: if (dist > 20 && engineRef.current)
LocalLaunch(angle, dragPower) ==
    /\ dragPower > MinDragDistance * LAUNCH_DRAG_SCALE
    /\ engineRef
    /\ Launch("launch", SelfPid, angle, clamp(dragPower, MIN_LAUNCH_POWER, MAX_LAUNCH_POWER))

\* wrapper: handleOtherLaunch({playerId, angle, power})
OtherLaunch(pid, angle, power) ==
    /\ engineRef
    /\ pid # SelfPid
    /\ Launch("otherlaunch", pid, angle, power)

\* what a sample for pid is measured from: the actor's current state when known,
\* the middle of the floor otherwise
SampleBase(pid) ==
    IF pid \in DOMAIN players THEN PhysOf(players[pid])
    ELSE [x |-> WORLD_WIDTH \div 2, y |-> FloorY, vx |-> 0, vy |-> 0]

\* wrapper: handleStateSync(state); the sample lies dpos from the named actor's
\* position and dvel from its velocity
StateSync(pid, dpos, dvel) ==
    LET base == SampleBase(pid)
        state == [playerId |-> pid, x |-> base.x + dpos[1], y |-> base.y + dpos[2],
                  vx |-> base.vx + dvel[1], vy |-> base.vy + dvel[2]]
    IN  /\ engineRef
        /\ nSamples < MaxSamples
        /\ nSamples' = nSamples + 1
        /\ players' = handleStateSync(players, selfId, state)
        /\ last' = [OpOn("sample", pid) EXCEPT !.sample = PhysOf(state)]
        /\ UNCHANGED <<now, lifeVars, groundVars, bubbles, bodies, poppedIndices,
                       processedPopEvents, emitted, scored, lastSlotIndex, lastSyncTime,
                       serverState, pendingPlayers, seedVars, removals, inst, minigameState, game>>

\* sample offsets, mm: at distances 0, 50, 100, 2000 and 2010
PosOffsets == { <<0, 0>>, <<0, -50>>, <<60, -80>>, <<0, -2000>>, <<0, -2010>> }
\* sample velocity offsets, mm/s
VelOffsets == { <<0, 0>>, <<500, -1000>> }
\* requested launch powers, mm/s
Powers == {3000, 12000, 40000}
MotionAdvances == {1500}
\* the step's outcome for the avatars in motion
PhysChoices == {[p \in {SelfPid} \cup OtherPids |-> c] : c \in {"rest", "air", "fast"}}

NextMotion ==
    \/ InitComplete
    \/ \E pid \in OtherPids : AddPlayer(pid)
    \/ \E adv \in MotionAdvances, phys \in PhysChoices : Frame(adv, NoContact, FALSE, phys)
    \/ \E angle \in Angles, power \in Powers : LocalLaunch(angle, power)
    \/ \E pid \in OtherPids, angle \in Angles, power \in Powers : OtherLaunch(pid, angle, power)
    \/ \E pid \in {SelfPid} \cup OtherPids, dpos \in PosOffsets, dvel \in VelOffsets :
           StateSync(pid, dpos, dvel)

SpecMotion == Init /\ [][NextMotion]_vars

----------------------------------------------------------------------------
(* the spawn specification: two engine instances deriving spawn parameters *)

spawnVars == <<now, lifeVars, groundVars, ledgerVars, lastSlotIndex, lastSyncTime,
               serverState, pendingPlayers, seedVars, removals, nSamples, last,
               minigameState, game>>

\* instance e runs the parameter derivation of spawnDeterministicBubble(slotIndex)
SpawnCall(e, slotIndex) ==
    /\ Len(inst[e].spawned) < MaxCalls
    /\ \E d \in {Draws(generatorFor(inst[e], syncSeed, slotIndex))} :
           inst' = [inst EXCEPT ![e].spawned = Append(@, slotIndex),
                                ![e].results[slotIndex] = @ \cup {ParamsOf(d)},
                                ![e].gen = d[5][2]]
    /\ UNCHANGED spawnVars

\* instance e runs update()'s wobble draw for the bubble of slotIndex
WobbleCall(e, slotIndex) ==
    /\ inst[e].wobbles < MaxWobbles
    /\ inst' = [inst EXCEPT ![e].wobbles = @ + 1,
                            ![e].gen = prngCall(generatorFor(inst[e], syncSeed, slotIndex))[2]]
    /\ UNCHANGED spawnVars

InitSpawn == \E seed \in Seeds : InitWith(seed)

NextSpawn ==
    \/ \E e \in {1, 2}, slotIndex \in Slots : SpawnCall(e, slotIndex)
    \/ \E e \in {1, 2}, slotIndex \in Slots : WobbleCall(e, slotIndex)

SpecSpawn == InitSpawn /\ [][NextSpawn]_vars

----------------------------------------------------------------------------
(* the lifecycle specification: init(), destroy(), the player queue, and calls
   made on the engine itself before it is ready and after it was destroyed *)

\* engine.removePlayer(playerId), a method the wrapper never calls
RemovePlayer(pid) ==
    /\ IF pid \notin DOMAIN players
       THEN /\ removals' = IF initPhase = "pending" /\ ~isDestroyed
                           THEN removals \cup {<<pid, Len(pendingPlayers)>>}
                           ELSE removals
            /\ last' = OpOn("remove", pid)
            /\ UNCHANGED players
       ELSE /\ players' = IF HasWorld THEN Without(players, pid) ELSE players
            /\ last' = [OpOn("remove", pid) EXCEPT !.ok = HasWorld, !.threw = ~HasWorld,
                                                   !.preL = Proj(Ledger)]
            /\ UNCHANGED removals
    /\ UNCHANGED <<now, lifeVars, groundVars, bubbles, bodies, poppedIndices,
                   processedPopEvents, emitted, scored, lastSlotIndex, lastSyncTime,
                   serverState, pendingPlayers, seedVars, nSamples, inst, minigameState, game>>

\* engine.addPlayer(playerId, avatarSeed, true) for any player: queued before
\* ready, carried out at once afterwards
AddOwnPlayer(pid) ==
    /\ IF ~isReady
       THEN /\ Len(pendingPlayers) < MaxPending
            /\ pendingPlayers' = Append(pendingPlayers, [playerId |-> pid, isOwn |-> TRUE])
            /\ last' = [OpOn("addown", pid) EXCEPT !.preL = Proj(Ledger)]
            /\ UNCHANGED <<players, groundVars>>
       ELSE LET E == addPlayer(Actors, pid, TRUE)
            IN  /\ players' = E.players
                /\ selfId' = E.selfId
                /\ lastGroundedState' = E.lastGroundedState
                /\ notified' = E.notified
                /\ last' = [OpOn("addown", pid) EXCEPT !.ok = TRUE, !.notes = E.notes,
                                                       !.preL = Proj(Ledger)]
                /\ UNCHANGED pendingPlayers
    /\ UNCHANGED <<now, lifeVars, bubbles, bodies, poppedIndices, processedPopEvents, emitted,
                   scored, lastSlotIndex, lastSyncTime, serverState, seedVars, removals, nSamples,
                   inst, minigameState, game>>

\* update() called on an engine that is not ready, has no world or was destroyed:
\* it returns on its first line
SkippedTick(adv) ==
    /\ initPhase # "pending"
    /\ ~updateRuns(isReady, HasWorld, isDestroyed)
    /\ (now + adv) \div BUBBLE_SPAWN_INTERVAL <= MaxSlot
    /\ now' = now + adv
    /\ last' = [Op("skip") EXCEPT !.preL = Proj(Ledger)]
    /\ UNCHANGED <<lifeVars, groundVars, ledgerVars, lastSlotIndex, lastSyncTime, serverState,
                   pendingPlayers, seedVars, removals, nSamples, inst, minigameState, game>>

\* engine.handleBubblePop(bubbleId, playerId, false) on a destroyed engine: with
\* this.world null, removing a live bubble throws after the index was retired
LatePop(pid, slot) ==
    /\ isDestroyed
    /\ poppedIndices' = poppedIndices \cup {slot}
    /\ last' = [OpOn("remotepop", pid) EXCEPT !.slot = slot, !.preL = Proj(Ledger),
                   !.threw = slot \in DOMAIN bubbles]
    /\ UNCHANGED <<now, lifeVars, groundVars, bubbles, bodies, processedPopEvents, players,
                   emitted, scored, lastSlotIndex, lastSyncTime, serverState, pendingPlayers,
                   seedVars, removals, nSamples, inst, minigameState, game>>

\* engine.syncScores(popCounts) on a destroyed engine
LateScores(table) ==
    /\ isDestroyed
    /\ players' = syncScores(players, selfId, table)
    /\ last' = [Op("scores") EXCEPT !.table = table, !.preL = Proj(Ledger)]
    /\ UNCHANGED <<now, lifeVars, groundVars, bubbles, bodies, poppedIndices,
                   processedPopEvents, emitted, scored, lastSlotIndex, lastSyncTime,
                   serverState, pendingPlayers, seedVars, removals, nSamples, inst,
                      minigameState, game>>

\* engine.syncMinigameState(state) on a destroyed engine.  The loop over
\* state.poppedBubbles retires each id and then removes its bubble when it is
\* live: with this.world null that throws, at the first live id of the array,
\* after the ids before it (before) and that id itself were retired.
LateSnapshot(state) ==
    LET live == state.poppedBubbles \cap DOMAIN bubbles
    IN  /\ isDestroyed
        /\ ~state.isNull
        /\ serverState' = state
        /\ IF live = {}
           THEN SetLedger(syncMinigameState(Ledger, selfId, state))
           ELSE /\ \E first \in live, before \in SUBSET (state.poppedBubbles \ live) :
                       poppedIndices' = poppedIndices \cup before \cup {first}
                /\ UNCHANGED <<bubbles, bodies, processedPopEvents, players, emitted, scored>>
        /\ last' = [Op("snapshot") EXCEPT !.table = state.popCounts, !.ok = live = {},
                       !.preL = Proj(Ledger), !.threw = live # {}]
        /\ UNCHANGED <<now, lifeVars, groundVars, lastSlotIndex, lastSyncTime,
                       pendingPlayers, seedVars, removals, nSamples, inst, minigameState, game>>

\* engine.syncPlayerState(playerId, state) on a destroyed engine
LateSample(pid, sample) ==
    LET state == [playerId |-> pid, x |-> sample.x, y |-> sample.y,
                  vx |-> sample.vx, vy |-> sample.vy]
    IN  /\ isDestroyed
        /\ players' = syncPlayerState(players, selfId, pid, state)
        /\ last' = [OpOn("sample", pid) EXCEPT !.sample = sample, !.preL = Proj(Ledger)]
        /\ UNCHANGED <<now, lifeVars, groundVars, bubbles, bodies, poppedIndices,
                       processedPopEvents, emitted, scored, lastSlotIndex, lastSyncTime,
                       serverState, pendingPlayers, seedVars, removals, nSamples, inst,
                          minigameState, game>>

\* engine.launchAvatar(playerId, angle, power) on a destroyed engine
LateLaunch(pid, angle, power) ==
    /\ isDestroyed
    /\ Launch("launch", pid, angle, power)

\* engine.addPlayer(playerId, avatarSeed, false) on a destroyed engine: isReady is
\* false, so the call is queued
LateAddPlayer(pid) ==
    /\ isDestroyed
    /\ Len(pendingPlayers) < MaxPending
    /\ pendingPlayers' = Append(pendingPlayers, [playerId |-> pid, isOwn |-> FALSE])
    /\ last' = [OpOn("add", pid) EXCEPT !.preL = Proj(Ledger)]
    /\ UNCHANGED <<now, lifeVars, groundVars, ledgerVars, lastSlotIndex, lastSyncTime,
                   serverState, seedVars, removals, nSamples, inst, minigameState, game>>

\* clock advances of the lifecycle specification: a frame, and a stall of one
\* whole spawn interval
LifeAdvances == {1000, 2000}
\* a sample in mid-air, beyond the hard-snap distance from the floor
LateSamples == { [x |-> WORLD_WIDTH \div 2, y |-> 8000, vx |-> 0, vy |-> 0] }
\* score tables naming the other player only
LateTables == {table \in ScoreTables : DOMAIN table = OtherPids}
\* snapshots that reach a destroyed engine: slot 0 popped by player b, alone or
\* with slot 1 popped by the local player
LateSnapshots == {SnapshotOf({}, {0}), SnapshotOf({1}, {0})}
\* the launch tried in the lifecycle specification: straight up, mid power
LifeAngles == { <<0, -1000>> }
LifePowers == {12000}

NextLife ==
    \/ \E adv \in LifeAdvances : Elapse(adv)
    \/ InitComplete
    \/ InitFail
    \/ \E pid \in OtherPids : AddPlayer(pid)
    \/ AddPlayerNoId
    \/ \E pid \in OtherPids : RemovePlayer(pid)
    \/ Destroy
    \/ \E adv \in LifeAdvances : Frame(adv, NoContact, FALSE, AtRest)
    \/ \E adv \in LifeAdvances : SkippedTick(adv)
    \/ \E angle \in LifeAngles, power \in LifePowers : LocalLaunch(angle, power)
    \/ \E pid \in OtherPids, slot \in Slots : LatePop(pid, slot)
    \/ \E table \in LateTables : LateScores(table)
    \/ \E state \in LateSnapshots : LateSnapshot(state)
    \/ \E pid \in OtherPids, sample \in LateSamples : LateSample(pid, sample)
    \/ \E pid \in OtherPids, angle \in LifeAngles, power \in LifePowers :
           LateLaunch(pid, angle, power)
    \/ \E pid \in OtherPids : LateAddPlayer(pid)

SpecLife == Init /\ [][NextLife]_vars

----------------------------------------------------------------------------
(* the roster specification: actors added (as own or not), removed, launched
   and stepped, by calls made on the engine itself *)

\* engine.launchAvatar(playerId, angle, power) for any player
EngineLaunch(pid, angle, power) == Launch("launch", pid, angle, power)

RosterPids == {SelfPid} \cup OtherPids
RosterAdvances == {1000}

NextRoster ==
    \/ InitComplete
    \/ \E pid \in OtherPids : AddPlayer(pid)
    \/ \E pid \in RosterPids : AddOwnPlayer(pid)
    \/ \E pid \in RosterPids : isReady /\ RemovePlayer(pid)
    \/ \E pid \in RosterPids, angle \in LifeAngles, power \in LifePowers :
           EngineLaunch(pid, angle, power)
    \/ \E adv \in RosterAdvances, phys \in PhysChoices : Frame(adv, NoContact, FALSE, phys)

SpecRoster == Init /\ [][NextRoster]_vars

----------------------------------------------------------------------------
(* the fall specification: frames at full rate for as long as a bubble takes to
   fall through the world, with pop messages for the second slot *)

\* the last slot whose spawn time the fall specification's clock reaches
MaxFallSlot == 7
FallSlots == 0..MaxFallSlot
\* the frame interval at 30 frames per second, ms
FallAdvances == {MaxFrameDelta}
\* the slots pop messages name in the fall specification
FallPopSlots == {1}

\* the state after the constructor, with the spawn parameters of FallSlots
InitFall ==
    /\ now = 0
    /\ initPhase = "pending"
    /\ isReady = FALSE
    /\ isDestroyed = FALSE
    /\ engineRef = TRUE
    /\ selfId = SelfPid
    /\ players = EmptyFn
    /\ bubbles = EmptyFn
    /\ bodies = {}
    /\ poppedIndices = {}
    /\ processedPopEvents = {}
    /\ lastSlotIndex = -1
    /\ lastSyncTime = 0
    /\ serverState = NullState
    /\ lastGroundedState = "null"
    /\ pendingPlayers = <<[playerId |-> SelfPid, isOwn |-> TRUE]>>
    /\ syncSeed = hashString(SeedAB)
    /\ slotParams = [s \in FallSlots |-> SpawnParams(hashString(SeedAB), s)]
    /\ emitted = [k \in Keys |-> 0]
    /\ notified = <<>>
    /\ scored = [k \in Keys |-> 0]
    /\ nSamples = 0
    /\ last = BaseLast
    /\ removals = {}
    /\ inst = NoInst(hashString(SeedAB))
    /\ minigameState = NoPops
    /\ game = NewGame

NextFall ==
    \/ InitComplete
    \/ \E adv \in FallAdvances : Frame(adv, NoContact, FALSE, AtRest)
    \/ \E pid \in OtherPids, slot \in FallPopSlots : RemotePop(pid, slot)

SpecFall == InitFall /\ [][NextFall]_vars

----------------------------------------------------------------------------
(* properties of the ledger specification *)

\* C1: for every key (local actor, slot), the local actor's score is incremented
\* at most once, whatever sequence of candidate pops the engine processes.
C1_ScoredOncePerKey == \A s \in Slots : scored[<<SelfPid, s>>] <= 1

\* a second local collision of the local actor with an already processed key
C1_Witness ==
    /\ last.op = "update" /\ last.isLocal /\ last.pid = SelfPid /\ last.seen
    /\ scored[<<SelfPid, last.slot>>] = 1

\* C2: over score tables interleaved with local pops the local actor's score never
\* decreases, and a table entry replaces it only when strictly greater.
C2_LocalScoreMonotone ==
    (last.op \in {"scores", "update", "remotepop"} /\ SelfPid \in DOMAIN last.pre) =>
        /\ players[SelfPid].popCount >= last.pre[SelfPid]
        /\ last.op = "scores" =>
              players[SelfPid].popCount =
                  IF SelfPid \in DOMAIN last.table /\ last.table[SelfPid] > last.pre[SelfPid]
                  THEN last.table[SelfPid] ELSE last.pre[SelfPid]

\* a table entry below the local actor's score, left unapplied
C2_Witness ==
    /\ last.op = "scores" /\ SelfPid \in DOMAIN last.pre /\ SelfPid \in DOMAIN last.table
    /\ last.table[SelfPid] < last.pre[SelfPid]
    /\ players[SelfPid].popCount = last.pre[SelfPid]
    /\ \E s \in Slots : scored[<<SelfPid, s>>] = 1

\* C3: a full snapshot sets the scores by the rule of syncScores: the local
\* actor's score only when the snapshot's is greater, every other actor's overwritten.
C3_SnapshotScoresLikeSyncScores ==
    (last.op = "snapshot" /\ last.ok) =>
        \A pid \in DOMAIN last.pre \cap DOMAIN last.table :
            players[pid].popCount = MergedCount(pid, selfId, last.pre[pid], last.table[pid])

\* C4: after syncScores every non-local actor named by the table holds exactly
\* the table's entry.
C4_OthersTakeTableEntry ==
    last.op = "scores" =>
        \A pid \in (DOMAIN players \cap DOMAIN last.table) \ {selfId} :
            players[pid].popCount = last.table[pid]

\* a table entry below a non-local actor's score, applied
C4_Witness ==
    /\ last.op = "scores" /\ "b" \in DOMAIN last.pre /\ "b" \in DOMAIN last.table
    /\ last.table["b"] < last.pre["b"]
    /\ players["b"].popCount = last.table["b"]

\* C9: a slot that has been popped, by a local collision, a remote pop or a
\* snapshot, has no live bubble in any later state.
C9_PoppedSlotNeverLive == \A s \in poppedIndices : s \notin DOMAIN bubbles

\* update() reaches a slot that was popped before it was due, and spawns nothing
C9_Witness ==
    /\ last.op = "update" /\ ~last.isLocal /\ last.tried \in poppedIndices
    /\ last.tried \notin DOMAIN bubbles

----------------------------------------------------------------------------
(* properties of the motion specification *)

\* the last operation was a position sample for a known actor other than the
\* local one
RemoteSample == last.op = "sample" /\ last.known /\ last.pid # selfId

\* m lies on the segment from a to b, at neither end
StrictlyBetween(a, m, b) ==
    /\ (m.x - a.x) * (b.y - a.y) = (m.y - a.y) * (b.x - a.x)
    /\ (m.x - a.x) * (b.x - a.x) + (m.y - a.y) * (b.y - a.y) > 0
    /\ (b.x - m.x) * (b.x - a.x) + (b.y - m.y) * (b.y - a.y) > 0

\* C5: a sample for a known remote actor at distance d: beyond 2.0 position and
\* velocity become the sample's; above 0.05 and up to 2.0 the new position lies
\* strictly between the old one and the sample; up to 0.05 nothing changes.
C5_SnapBlendOrNothing ==
    RemoteSample =>
        LET d2 == DistSq(last.was, last.sample)
            cur == PhysOf(players[last.pid])
        IN  /\ d2 > HardSnap * HardSnap => cur = last.sample
            /\ (DeadZone * DeadZone < d2 /\ d2 <= HardSnap * HardSnap)
                  => StrictlyBetween(last.was, cur, last.sample)
            /\ d2 <= DeadZone * DeadZone => cur = last.was

\* a sample exactly 2.0 away, blended
C5_Witness ==
    /\ RemoteSample
    /\ DistSq(last.was, last.sample) = HardSnap * HardSnap
    /\ StrictlyBetween(last.was, PhysOf(players[last.pid]), last.sample)

\* C6: a sample naming the local actor changes neither its position nor its
\* velocity, at any distance.
C6_LocalActorNotCorrected ==
    (last.op = "sample" /\ last.pid = selfId /\ last.known) =>
        PhysOf(players[selfId]) = last.was

\* a sample for the local actor beyond the snap distance, ignored
C6_Witness ==
    /\ last.op = "sample" /\ last.pid = selfId /\ last.known
    /\ DistSq(last.was, last.sample) > HardSnap * HardSnap
    /\ PhysOf(players[selfId]) = last.was

\* the grounded test on a position and velocity: near the floor and slow
PassesGroundedTest(ph) ==
    /\ ph.y >= GROUNDED_Y_THRESHOLD
    /\ SpeedSq(ph) < GROUNDED_VELOCITY_THRESHOLD * GROUNDED_VELOCITY_THRESHOLD

LaunchOps == {"launch", "otherlaunch"}

\* C7: launchAvatar on an actor that fails the grounded test reports failure and
\* leaves velocity, grounded flag and last notified grounded state as they were,
\* without a notification.
C7_AirborneLaunchRejected ==
    (last.op \in LaunchOps /\ last.known /\ ~PassesGroundedTest(last.was)) =>
        /\ ~last.ok
        /\ PhysOf(players[last.pid]) = last.was
        /\ players[last.pid].isGrounded = last.wasGrounded
        /\ lastGroundedState = last.wasLast
        /\ last.notes = 0

\* the local actor, near the floor but too fast, asks for a launch
C7_Witness ==
    /\ last.op = "launch" /\ last.known /\ ~last.ok
    /\ last.was.y >= GROUNDED_Y_THRESHOLD
    /\ SpeedSq(last.was) >= GROUNDED_VELOCITY_THRESHOLD * GROUNDED_VELOCITY_THRESHOLD

\* C8: launchAvatar on a grounded actor with a power outside [MIN, MAX] succeeds
\* and applies a velocity whose magnitude is the nearer bound.
C8_LaunchPowerClamped ==
    (last.op \in LaunchOps /\ last.known /\ PassesGroundedTest(last.was)
        /\ (last.power < MIN_LAUNCH_POWER \/ last.power > MAX_LAUNCH_POWER)) =>
        /\ last.ok
        /\ SpeedSq(players[last.pid]) =
               IF last.power < MIN_LAUNCH_POWER
               THEN MIN_LAUNCH_POWER * MIN_LAUNCH_POWER
               ELSE MAX_LAUNCH_POWER * MAX_LAUNCH_POWER

\* a remote launch asking for more than the maximum, carried out at the maximum
C8_Witness ==
    /\ last.op = "otherlaunch" /\ last.ok /\ last.power > MAX_LAUNCH_POWER
    /\ SpeedSq(players[last.pid]) = MAX_LAUNCH_POWER * MAX_LAUNCH_POWER

----------------------------------------------------------------------------
(* properties of the spawn specification *)

\* C10: the spawn parameters of a slot are a function of (seed, slotIndex) alone:
\* two instances with the same seed, asked in any order and with wobble draws
\* in between, derive the same parameters for every slot, every time.
C10_SpawnParamsPure ==
    \A s \in Slots :
        /\ Cardinality(inst[1].results[s] \cup inst[2].results[s]) <= 1
        /\ inst[1].results[s] \cup inst[2].results[s] \subseteq {slotParams[s]}

\* the two instances were asked for slots 0 and 1 in opposite orders, one of them
\* after a wobble draw
C10_Witness ==
    /\ inst[1].spawned = <<0, 1>> /\ inst[2].spawned = <<1, 0>>
    /\ inst[2].wobbles > 0
    /\ \A s \in {0, 1} : inst[1].results[s] # {} /\ inst[1].results[s] = inst[2].results[s]

----------------------------------------------------------------------------
(* properties of the catch-up at the end of init() *)

\* the slots init() asks for: for (i = currentSlot - 10; i <= currentSlot; i++) if (i >= 0)
Lookback(cur) == {s \in Slots : cur - 10 <= s /\ s <= cur}

\* slot s, computed for time t, has not yet left the playable region
StillInside(s, t) == ~OffScreen(slotParams[s], t - s * BUBBLE_SPAWN_INTERVAL)

\* C11: when init() completes mid-session, every unpopped slot of the lookback
\* window (the 10 slots before the current one) whose computed position is still
\* inside the playable region has a live bubble, with the parameters of its slot.
C11_LateJoinerSeesLookback ==
    (last.op = "init" /\ last.ok) =>
        \A s \in Lookback(now \div BUBBLE_SPAWN_INTERVAL) \ {now \div BUBBLE_SPAWN_INTERVAL} :
            (s \notin poppedIndices /\ StillInside(s, now)) =>
                /\ s \in DOMAIN bubbles
                /\ bubbles[s].radius = slotParams[s].radius
                /\ bubbles[s].x = slotParams[s].x

----------------------------------------------------------------------------
(* properties of the lifecycle specification *)

\* the slots whose spawn the last tick requested
Requested == IF last.tried = -1 THEN {} ELSE {last.tried}

\* C12: a tick that finds the current slot advanced past the last-known slot
\* requests the spawn of every slot after the last-known one up to the current one.
C12_StallSpawnsEverySlot ==
    (last.op = "update" /\ lastSlotIndex > last.wasSlot) =>
        \A s \in (last.wasSlot + 1)..lastSlotIndex : s \in Requested

----------------------------------------------------------------------------
(* properties of snapshots *)

\* the scores held in ledger L
CountsOf(L) == [p \in DOMAIN L.players |-> L.players[p].popCount]

\* ledgers L and M agree on retired slots, seen keys, live bubbles and scores
SameOutcome(L, M) == Proj(L) = Proj(M) /\ CountsOf(L) = CountsOf(M)

\* C13: applying a snapshot a second time, or a pop event (remote or local) whose
\* key the snapshot contains after it, leaves retired slots, seen keys, live
\* bubbles and scores as the first application left them.
C13_SnapshotIdempotent ==
    /\ last.again => (Proj(Ledger) = last.preL /\ PreCounts = last.pre)
    /\ JustSynced =>
          /\ SameOutcome(syncMinigameState(Ledger, selfId, serverState), Ledger)
          /\ \A k \in KeysOf(serverState), isLocal \in BOOLEAN, refused \in BOOLEAN :
                 SameOutcome(handleBubblePop(Ledger, k[2], k[1], isLocal, refused), Ledger)

\* a snapshot holding pops of both players applied twice, then followed by a pop
\* message for one of its keys
C13_Witness ==
    /\ last.op = "remotepop" /\ last.again
    /\ SelfPid \in DOMAIN serverState.popCounts /\ SelfPid \in DOMAIN players
    /\ players[SelfPid].popCount = serverState.popCounts[SelfPid]
    /\ last.preL.popped = serverState.poppedBubbles

\* a pop candidate (local collision or pop message) for a key of the held snapshot
SubsumedPop ==
    /\ last.op \in {"update", "remotepop"} /\ last.slot # -1
    /\ ~serverState.isNull
    /\ <<last.pid, last.slot>> \in KeysOf(serverState)

\* C14: once a snapshot is applied, every slot of its popped list is retired and
\* has no live bubble, every key of its ledger is in the seen-set, and a later pop
\* candidate for such a key changes no score and sends no outbound pop.
C14_SnapshotRetiresAndSeeds ==
    /\ ~serverState.isNull =>
          /\ serverState.poppedBubbles \subseteq poppedIndices
          /\ serverState.poppedBubbles \cap DOMAIN bubbles = {}
          /\ KeysOf(serverState) \subseteq processedPopEvents
    /\ SubsumedPop => (PreCounts = last.pre /\ last.sent = 0)

\* the local actor collides with what is left of a bubble that the snapshot lists
\* as popped by it: nothing is scored or sent
C14_Witness ==
    /\ SubsumedPop /\ last.op = "update" /\ last.pid = SelfPid
    /\ scored[<<SelfPid, last.slot>>] = 0
    /\ last.pre[SelfPid] >= 1

----------------------------------------------------------------------------
(* properties of the player queue and of teardown *)

\* the position in queue q of the last addPlayer call for pid, 0 when there is none
LastAdd(q, pid) ==
    LET at == {i \in 1..Len(q) : q[i].playerId = pid}
    IN  IF at = {} THEN 0 ELSE CHOOSE i \in at : \A j \in at : j <= i

\* the actors a ready engine holds after the addPlayer calls of queue q and the
\* removePlayer calls of rem, each made when the queue had the given length, in
\* call order: those whose last add comes after their last remove
ActorsInCallOrder(q, rem) ==
    {pid \in AllPids :
        /\ LastAdd(q, pid) > 0
        /\ \A r \in rem : r[1] = pid => r[2] < LastAdd(q, pid)}

\* C15: the addPlayer and removePlayer calls made before init() completes are
\* replayed in call order: afterwards the engine holds the actors that the same
\* calls, in the same order, leave on a ready engine.
C15_QueuedCallsReplayedInOrder ==
    (last.op = "init" /\ last.ok) =>
        DOMAIN players = ActorsInCallOrder(last.queue, removals)

\* C16: when destroy() comes while init() is still awaiting, init() on resuming
\* changes nothing: the engine never becomes ready, gets no physics world and no
\* tick, and the queued players are never added.
C16_DestroyedInitMutatesNothing ==
    /\ isDestroyed => ~isReady
    /\ (last.op = "init" /\ isDestroyed) =>
          (~last.ok /\ initPhase = "aborted" /\ players = EmptyFn /\ pendingPlayers # <<>>)
    /\ initPhase = "aborted" =>
          /\ ~isReady /\ ~HasWorld
          /\ players = EmptyFn /\ bubbles = EmptyFn /\ bodies = {}
          /\ lastSlotIndex = -1
          /\ last.op # "update"

\* init() has resumed on a destroyed engine with players queued, and a tick came
\* afterwards
C16_Witness ==
    /\ initPhase = "aborted" /\ last.op = "skip"
    /\ Len(pendingPlayers) = 2 /\ players = EmptyFn /\ ~isReady

\* the operations that reach the engine as callbacks: tick, pop message, score
\* table, snapshot, position sample, launch, addPlayer
CallbackOps == {"skip", "update", "remotepop", "scores", "snapshot", "sample", "launch",
                "otherlaunch", "add"}

\* C17: a callback that reaches the engine after destroy() changes neither its
\* actors, live bubbles, scores, retired slots nor seen keys, moves no actor, and
\* does not fail on the released physics world.
C17_NoMutationAfterDestroy ==
    (isDestroyed /\ last.op \in CallbackOps) =>
        /\ ~last.threw
        /\ PreCounts = last.pre
        /\ last.known => PhysOf(players[last.pid]) = last.was
        /\ last.op \in LaunchOps => ~last.ok
        /\ last.op \notin LaunchOps => Proj(Ledger) = last.preL

\* C18: after a failed init() the engine stays non-ready: no tick steps the
\* physics or spawns a bubble, every launch attempt reports failure, and the
\* failure itself is caught inside init().
C18_FailedInitStaysUnusable ==
    initPhase = "failed" =>
        /\ ~isReady /\ ~HasWorld
        /\ players = EmptyFn /\ bubbles = EmptyFn /\ bodies = {}
        /\ lastSlotIndex = -1
        /\ last.op # "update"
        /\ last.op \in LaunchOps => ~last.ok
        /\ ~last.threw

----------------------------------------------------------------------------
(* properties of the motion specification: samples sent, launches received *)

\* C19: a tick emits a position sample of the local actor only while that actor
\* is airborne, never while it passes the grounded test, also after it has landed
\* again.
C19_SamplesOnlyWhileAirborne ==
    (last.op = "update" /\ last.synced) => ~PassesGroundedTest(last.selfWas)

\* C20: a launch message naming a known actor other than the local one is always
\* carried out, also when this client sees that actor airborne.
C20_RemoteLaunchBypassesGate ==
    (last.op = "otherlaunch" /\ last.known /\ isReady) =>
        /\ last.ok
        /\ SpeedSq(players[last.pid]) = LaunchPower(last.power) * LaunchPower(last.power)

----------------------------------------------------------------------------
(* properties of the ledger specification: pop messages and scoring *)

\* C21: an outbound pop message is sent exactly when a pop by the local actor is
\* processed for the first time: never for another actor's pop, never twice for
\* one key, whatever duplicates and snapshots arrive.
C21_PopSentOnFirstLocalPop ==
    /\ \A k \in Keys : emitted[k] <= 1 /\ (k[1] # SelfPid => emitted[k] = 0)
    /\ last.sent = 1 <=>
           (last.op = "update" /\ last.isLocal /\ last.pid = SelfPid /\ ~last.seen)

\* the local actor's first pop of a slot was sent, and a pop by the other actor
\* was then processed without a message
C21_Witness ==
    /\ \E s \in Slots : emitted[<<SelfPid, s>>] = 1
    /\ last.op \in {"update", "remotepop"} /\ last.pid \in OtherPids /\ last.slot \in Slots
    /\ last.sent = 0

\* C22: a candidate pop whose acting actor is not the local one (its avatar
\* touching a bubble in this client's simulation, or a pop message) raises no
\* actor's score; other actors' scores change only through score tables and snapshots.
C22_OnlyLocalActorScores ==
    /\ \A k \in Keys : k[1] # SelfPid => scored[k] = 0
    /\ (last.op \in {"update", "remotepop"} /\ last.pid # SelfPid) => PreCounts = last.pre

----------------------------------------------------------------------------
(* properties of the roster specification: grounded notifications, actors *)

\* C23: over any sequence of addPlayer, removePlayer, launch and tick, the
\* grounded notification fires only on a change, so two consecutive
\* notifications never carry the same value.
C23_GroundedNotifiedOnChange ==
    Len(notified) = 2 => notified[1] # notified[2]

\* C24: a launch, position sample or pop naming an actor the engine does not hold
\* is ignored: actors, live bubbles, retired slots, seen keys and scores stay as
\* they were and nothing is thrown.
C24_UnknownActorIgnored ==
    (last.op \in {"remotepop", "launch", "otherlaunch", "sample"} /\ ~last.known) =>
        /\ Proj(Ledger) = last.preL
        /\ PreCounts = last.pre
        /\ ~last.ok /\ ~last.threw

\* the launch and sample half of the above, in the motion specification: the
\* actors held and their scores are as before and the launch reports failure
UnknownActorMotionIgnored ==
    (last.op \in {"launch", "otherlaunch", "sample"} /\ ~last.known) =>
        /\ PreCounts = last.pre
        /\ last.pid \notin DOMAIN players
        /\ ~last.ok

\* C25: a pop message for a slot that is already retired and whose key was
\* already seen changes nothing: live bubbles, retired slots, seen keys and every
\* score are as before, and nothing is thrown.
C25_StalePopIsNoOp ==
    (last.op = "remotepop" /\ last.seen /\ last.slot \in last.preL.popped) =>
        /\ Proj(Ledger) = last.preL
        /\ PreCounts = last.pre
        /\ last.sent = 0
        /\ ~last.threw

\* a pop message by a known remote actor whose score is not zero, for a stale key
C25_Witness ==
    /\ last.op = "remotepop" /\ last.seen /\ last.slot \in last.preL.popped
    /\ last.known /\ players[last.pid].popCount > 0
    /\ isReady

----------------------------------------------------------------------------
(* properties of the server specification *)

\* C26: when the same pop (actor, slot) is reported to the server more than once,
\* by whichever clients and in whatever order, the actor's authoritative count
\* rises by exactly 1 over its value before the first report, not by 2.
C26_ServerCountsKeyOnce ==
    /\ \A p \in AllPids :
           CountAt(minigameState, p) =
               IF p \in DOMAIN minigameState.playerPops
               THEN Cardinality(minigameState.playerPops[p]) ELSE 0
    /\ last.op = "report" =>
           CountAt(minigameState, last.pid) = last.tried + (IF last.seen THEN 0 ELSE 1)

\* a second report of a key after reports of other keys: the count stays
C26_Witness ==
    /\ last.op = "report" /\ last.seen
    /\ CountAt(minigameState, last.pid) = 1
    /\ \E p \in AllPids \ {last.pid} : CountAt(minigameState, p) > 0

----------------------------------------------------------------------------
(* properties of the motion specification: what a tick does to other actors *)

\* C27: a tick without an inbound message leaves the position and velocity of
\* every actor other than the local one as they were: only launches and position
\* samples move them.
C27_TickLeavesOthersAlone ==
    last.op = "update" =>
        \A pid \in DOMAIN last.othersWas : PhysOf(players[pid]) = last.othersWas[pid]

----------------------------------------------------------------------------
(* properties of the roster specification: the local-actor flag *)

\* the actors whose avatar carries the own flag (sprite.isOwn)
OwnActors == {pid \in DOMAIN players : players[pid].isOwn}

\* C28: over any sequence of addPlayer (own or not) and removePlayer calls, at
\* most one actor of the engine carries the local-actor flag.
C28_AtMostOneLocalActor == Cardinality(OwnActors) <= 1

----------------------------------------------------------------------------
(* properties of the fall specification *)

\* the bubbles a tick removed without a pop: live before it, gone after it, and
\* not the bubble of the tick's contact
Despawned == (last.preL.live \ DOMAIN bubbles) \ {last.slot}

\* C29: a bubble that falls below the lower bound of the world is removed from
\* the live bubbles without its slot being added to the retired slots; a tick
\* retires no slot but that of its pop.
C29_DespawnDoesNotRetire ==
    last.op = "update" =>
        /\ Despawned \cap poppedIndices = Despawned \cap last.preL.popped
        /\ poppedIndices = last.preL.popped \cup (IF last.isLocal THEN {last.slot} ELSE {})

\* a tick that removed a fallen bubble whose slot was never popped, while
\* another slot is retired
C29_Witness ==
    /\ last.op = "update" /\ Despawned # {}
    /\ Despawned \cap poppedIndices = {}
    /\ poppedIndices # {}

----------------------------------------------------------------------------
(* properties of the ledger specification: the seen-set *)

\* C30: after a candidate pop for key (actor, slot) has been processed, from a
\* local collision or from a pop message, the key is in the seen-set.
C30_ProcessedPopIsSeen ==
    (last.op \in {"update", "remotepop"} /\ last.slot # -1) =>
        <<last.pid, last.slot>> \in processedPopEvents

----------------------------------------------------------------------------
(* properties of the ledger specification: snapshots and joining actors *)

\* the score of actor p, absent now, after snapshot `state` and then addPlayer(p)
SnapshotThenAdd(p, state) == InitialCount(state, p)

\* the score of actor p, absent now, after addPlayer(p) and then snapshot `state`
AddThenSnapshot(p, state) ==
    LET E == addPlayer(Actors, p, FALSE)
        L == syncMinigameState([Ledger EXCEPT !.players = E.players], selfId, state)
    IN  L.players[p].popCount

\* C31: the score held for an actor does not depend on whether a snapshot arrives
\* before or after the actor is added.
C31_ScoreIndependentOfJoinOrder ==
    isReady =>
        \A p \in OtherPids \ DOMAIN players, state \in Snapshots \ {NullState} :
            SnapshotThenAdd(p, state) = AddThenSnapshot(p, state)

----------------------------------------------------------------------------
(* properties of the server specification: the ledger's shape, the result *)

\* the bubble ids the ledger records for player p
PopsOf(p) == IF p \in DOMAIN minigameState.playerPops THEN minigameState.playerPops[p] ELSE {}

\* C32: after any sequence of recordMinigamePop calls in a round, every player's
\* count is the number of bubble ids recorded for the player, poppedBubbles has no
\* duplicate, and it holds exactly the bubbles popped by at least one player.
C32_ServerLedgerConsistent ==
    /\ \A p \in DOMAIN minigameState.popCounts :
           minigameState.popCounts[p] = Cardinality(PopsOf(p))
    /\ \A p \in AllPids : PopsOf(p) # {} => p \in DOMAIN minigameState.popCounts
    /\ Cardinality(Range(minigameState.poppedBubbles)) = Len(minigameState.poppedBubbles)
    /\ Range(minigameState.poppedBubbles) = UNION {PopsOf(p) : p \in AllPids}

\* two players popped the same bubble and one of them another one
C32_Witness ==
    /\ \E p, q \in AllPids : p # q /\ PopsOf(p) \cap PopsOf(q) # {} /\ Cardinality(PopsOf(p)) = 2
    /\ Len(minigameState.poppedBubbles) = 2

\* C33: recordMinigamePop returns true exactly when no player had popped the
\* bubble before: false for a repeat by the same player, and false for another
\* player's first pop of a bubble already popped.
C33_TrueOnFirstPopOfBubble ==
    last.op = "report" =>
        /\ last.ok <=> ~last.again
        /\ last.seen => ~last.ok
        /\ last.ok => minigameState.poppedBubbles[Len(minigameState.poppedBubbles)] = last.slot

\* another player's first pop of a bubble already popped: counted, result false
C33_Witness ==
    /\ last.op = "report" /\ ~last.seen /\ last.again /\ ~last.ok
    /\ CountAt(minigameState, last.pid) = last.tried + 1

----------------------------------------------------------------------------
(* properties of the word game: starting *)

\* C34: startGame with fewer than 3 connected players returns false and leaves
\* the status, the scores and the current round (the whole game) as they were; with
\* at least 3 connected players it returns true, sets every player's score to 0
\* and moves the game to WRITING.
C34_StartGameNeedsThreeConnected ==
    [][StartGame =>
           IF Cardinality({i \in 1..Len(game.players) : game.players[i].connected}) < 3
           THEN ~last'.success /\ game' = game
           ELSE /\ last'.success
                /\ game'.status = "WRITING"
                /\ Len(game'.players) = Len(game.players)
                /\ \A i \in 1..Len(game'.players) : game'.players[i].score = 0]_vars

\* a game started again after a round in which a guess had scored
C34_Witness ==
    /\ last.op = "start_game" /\ last.success
    /\ game.status = "WRITING"
    /\ Len(game.previousRoundEliminationOrder) > 0
    /\ \A i \in 1..Len(game.players) : game.players[i].score = 0

(* properties of the word game: guesses *)

\* the scores, in list order
ScoresOf(G) == [i \in 1..Len(G.players) |-> G.players[i].score]

\* everything but who is connected
Rules(G) == [G EXCEPT !.players = [i \in 1..Len(G.players) |->
                                      [G.players[i] EXCEPT !.connected = TRUE]]]

\* C35: makeGuess is rejected (success false) and leaves the whole game as it was
\* (scores, answers, guesses, elimination order, guesser, status) when the status
\* is not GUESSING, when the caller is not the current guesser, or when no unguessed
\* answer has the given text.
C35_RejectedGuessChangesNothing ==
    [][(/\ last'.op = "make_guess"
        /\ MakeGuess(last'.actor, last'.target, last'.text)
        /\ \/ game.status # "GUESSING"
           \/ last'.actor # game.guesserId
           \/ ~\E i \in 1..Len(game.answers) :
                  game.answers[i].text = last'.text /\ ~game.answers[i].isGuessed)
       => /\ ~last'.success
          /\ Rules(game') = Rules(game)]_vars

\* the guesser's guess at a text that no unguessed answer has, after an earlier
\* guess of the round
C35_Witness ==
    /\ last.op = "make_guess" /\ ~last.success
    /\ game.status = "GUESSING" /\ last.actor = game.guesserId
    /\ Len(game.guesses) > 0
    /\ \E i \in 1..Len(game.answers) : game.answers[i].text = last.text

\* the answer a guess was matched with: the first unguessed one with the text
Matched(G, x) ==
    CHOOSE i \in 1..Len(G.answers) :
        /\ G.answers[i].text = x /\ ~G.answers[i].isGuessed
        /\ \A j \in 1..(i - 1) : ~(G.answers[j].text = x /\ ~G.answers[j].isGuessed)

ScoreOf(G, id) == G.players[CHOOSE i \in 1..Len(G.players) : G.players[i].id = id].score

\* what the end of a round adds to the score of the author of the one answer
\* left unguessed (C38), for player id in the game after a guess
SurvivorBonus(G, id) ==
    IF /\ G.status = "ROUND_OVER"
       /\ Cardinality(Unguessed(G)) = 1
       /\ \A i \in Unguessed(G) : G.answers[i].playerId = id
    THEN 1 ELSE 0

\* C36: a correct guess adds exactly 1 to the guesser's score for the guess (the
\* survivor's point of C38 aside), marks the answer guessed, appends the target to
\* guessedPlayers and to eliminationOrder and leaves the guesser unchanged; an
\* incorrect guess changes no score and passes the turn to another player.
C36_CorrectScoresIncorrectPasses ==
    [][(/\ last'.op = "make_guess"
        /\ MakeGuess(last'.actor, last'.target, last'.text)
        /\ last'.success)
       => IF last'.correct
          THEN /\ ScoreOf(game', last'.actor) =
                      ScoreOf(game, last'.actor) + 1 + SurvivorBonus(game', last'.actor)
               /\ game'.answers[Matched(game, last'.text)].isGuessed
               /\ game'.guessedPlayers = Append(game.guessedPlayers, last'.target)
               /\ SubSeq(game'.eliminationOrder, 1, Len(game.eliminationOrder) + 1)
                      = Append(game.eliminationOrder, last'.target)
               /\ game'.guesserId = game.guesserId
          ELSE /\ ScoresOf(game') = ScoresOf(game)
               /\ game'.guesserId # game.guesserId]_vars

\* C37: in every GUESSING state the current guesser is a player of the game whose
\* answer has not been guessed in the current round: the turn is never held by, and
\* never passes to, an eliminated player.
C37_GuesserPresentAndNotEliminated ==
    game.status = "GUESSING" =>
        /\ game.guesserId \in IdsOf(game)
        /\ game.guesserId \notin Range(game.guessedPlayers)

\* the answers still unguessed, and their authors
Left(G) == {i \in 1..Len(G.answers) : ~G.answers[i].isGuessed}
AuthorsLeft(G) == {G.answers[i].playerId : i \in Left(G)}

\* C38: after a correct guess the status is ROUND_OVER if and only if no unguessed
\* answer remains or every remaining unguessed answer belongs to the guesser; when
\* exactly one unguessed answer remains at that point, its author gets exactly 1
\* point for it (on top of the guesser's point for the guess) and is appended last
\* to the elimination order.
C38_RoundOverWhenNothingLeftToGuess ==
    [][(/\ last'.op = "make_guess"
        /\ MakeGuess(last'.actor, last'.target, last'.text)
        /\ last'.success /\ last'.correct)
       => LET over == AuthorsLeft(game') \subseteq {last'.actor}
              one == over /\ Cardinality(Left(game')) = 1
              guessed == Append(game.eliminationOrder, last'.target)
          IN  /\ game'.status = "ROUND_OVER" <=> over
              /\ \A i \in 1..Len(game.players) :
                     game'.players[i].score =
                         game.players[i].score
                         + (IF game.players[i].id = last'.actor THEN 1 ELSE 0)
                         + (IF one /\ game.players[i].id \in AuthorsLeft(game')
                            THEN 1 ELSE 0)
              /\ game'.eliminationOrder =
                     IF one
                     THEN Append(guessed, CHOOSE a \in AuthorsLeft(game') : TRUE)
                     ELSE guessed]_vars

\* a correct guess that left only the guesser's own answer, and ended the round
C38_Witness ==
    /\ last.op = "make_guess" /\ last.success /\ last.correct
    /\ game.status = "ROUND_OVER"
    /\ Len(game.answers) = 3
    /\ AuthorsLeft(game) = {last.actor}
    /\ game.eliminationOrder[Len(game.eliminationOrder)] = last.actor
    /\ ScoreOf(game, last.actor) = 3

(* properties of the word game: the end of WRITING, and the advance to the next
   round *)

\* the players who have an answer in the current round
Submitted(G) == {G.answers[i].playerId : i \in 1..Len(G.answers)}

\* C39: the WRITING phase ends once all players who can still write have
\* submitted: a game in which every connected player has submitted an answer is
\* not left in WRITING, even when some player disconnected without submitting.
C39_WritingEndsWhenConnectedSubmitted ==
    (game.status = "WRITING" /\ Connected(game) # {}) =>
        ~(Connected(game) \subseteq Submitted(game))

\* C40: each round that reaches ROUND_OVER is advanced exactly once: the timeout
\* scheduled by make_guess and a manual next_round never both call nextRound for
\* it.  When the timeout of round r calls nextRound, round r is still the current
\* round, over and waiting, so that no answer of a following round is discarded.
C40_RoundAdvancedOnce ==
    [][\A r \in 1..MaxRounds :
           AutoAdvance(r) => game.rounds = r /\ game.status = "ROUND_OVER"]_vars

====
